---------------------------- MODULE Spec2Model ----------------------------
(***************************************************************************)
(* Anima-Sigma: the signature perception engine (normalizer, segmenter,    *)
(* path signatures) and the swarm topology / stability controller.         *)
(*                                                                         *)
(* Floating-point values are modelled as exact extended rationals n/d      *)
(* (d >= 0; n/0 is +-infinity, 0/0 is NaN), so the model follows IEEE      *)
(* arithmetic except for rounding.                                         *)
(***************************************************************************)
EXTENDS Integers, Sequences, FiniteSets, TLC

(***************************************************************************)
(* State.  Each component has its own variables; a specification drives    *)
(* one component and leaves the others idle.                               *)
(***************************************************************************)
VARIABLES
    \* the swarm: the units, the TopologyConfig last wired with, the last call
    swarm, config, swarm_op,
    \* the outcome of the last calculate_lateral_input, and the units a
    \* unit-by-unit wiring has rewired so far
    lat_result, wired,
    \* signature algebra: three increments, the tail, the operands and results
    sig_in, sig_tail, sig_pc, sig_ops, sig_left, sig_right, sig_pair, sig_direct,
    \* segmenter: the inputs, the loop's locals and the vectors pushed so far
    seg_raw, seg_times, seg_pc, seg_i, seg_start_idx, seg_current_sign, seg_vectors,
    \* AdaptiveNormalizer: its four fields and the outcome of the last call
    count, mean, m2, initialized, norm_result,
    \* create_vector_from_slice: the rows, the increments folded so far, the
    \* accumulated signature and the position in the function
    acc_raw, acc_k, acc_sig, acc_pc,
    \* a UniversalVector, a second one it is compared with, the last call
    uv, uv_other, uv_result,
    \* UniversalScanner: its buffers, normalizer and batch_size, the timestamp of
    \* the next sample, the last call, and the buffers the segmenter last received
    raw_buffer, time_buffer, normalizer, batch_size, scan_clock, scan_result, handed,
    \* the demo driver: each thread's position, each mutex's holder, the shared
    \* metrics and config, the threads' locals, and who wrote what
    demo_pc, holder, actions_count, cfg_version, reflex_iters, strat_rounds,
    new_config, writers

swarmVars == <<swarm, config, swarm_op>>

sigVars == <<sig_in, sig_tail, sig_pc, sig_ops, sig_left, sig_right, sig_pair,
             sig_direct>>

segVars == <<seg_raw, seg_times, seg_pc, seg_i, seg_start_idx, seg_current_sign,
             seg_vectors>>

normVars == <<count, mean, m2, initialized, norm_result>>

latVars == <<lat_result, wired>>

accVars == <<acc_raw, acc_k, acc_sig, acc_pc>>

uvVars == <<uv, uv_other, uv_result>>

scanVars == <<raw_buffer, time_buffer, normalizer, batch_size, scan_clock,
              scan_result, handed>>

demoVars == <<demo_pc, holder, actions_count, cfg_version, reflex_iters,
              strat_rounds, new_config, writers>>

vars == <<swarmVars, latVars, sigVars, segVars, normVars, accVars, uvVars, scanVars, demoVars>>

notSwarm == <<latVars, sigVars, segVars, normVars, accVars, uvVars, scanVars, demoVars>>

notSig == <<swarmVars, latVars, segVars, normVars, accVars, uvVars, scanVars, demoVars>>

notSeg == <<swarmVars, latVars, sigVars, normVars, accVars, uvVars, scanVars, demoVars>>

notNorm == <<swarmVars, latVars, sigVars, segVars, accVars, uvVars, scanVars, demoVars>>

notAcc == <<swarmVars, latVars, sigVars, segVars, normVars, uvVars, scanVars, demoVars>>

notUv == <<swarmVars, latVars, sigVars, segVars, normVars, accVars, scanVars, demoVars>>

notScan == <<swarmVars, latVars, sigVars, segVars, normVars, accVars, uvVars, demoVars>>

notDemo == <<swarmVars, latVars, sigVars, segVars, normVars, accVars, uvVars, scanVars>>

(***************************************************************************)
(* Extended rational arithmetic (f32 / f64 without rounding).              *)
(***************************************************************************)
Abs(x) == IF x < 0 THEN -x ELSE x

Sign(x) == IF x < 0 THEN -1 ELSE IF x > 0 THEN 1 ELSE 0

RECURSIVE GCD(_, _)
GCD(a, b) == IF b = 0 THEN a ELSE GCD(b, a % b)

\* n/d in lowest terms with d >= 0; d = 0 keeps only the sign (inf, -inf, NaN).
Norm(n, d) ==
    IF d = 0 THEN [n |-> Sign(n), d |-> 0]
    ELSE LET g == GCD(Abs(n), Abs(d))
         IN  [n |-> (Sign(d) * n) \div g, d |-> Abs(d) \div g]

R(k) == [n |-> k, d |-> 1]

NaN == [n |-> 0, d |-> 0]

IsNaN(x) == x.d = 0 /\ x.n = 0

IsFinite(x) == x.d > 0

\* Sums are formed over the least common denominator.
FAdd(x, y) ==
    LET g == IF x.d = 0 \/ y.d = 0 THEN 1 ELSE GCD(x.d, y.d)
    IN  Norm(x.n * (y.d \div g) + y.n * (x.d \div g), (x.d \div g) * y.d)

FNeg(x) == [n |-> -x.n, d |-> x.d]

FSub(x, y) == FAdd(x, FNeg(y))

FMul(x, y) == Norm(x.n * y.n, x.d * y.d)

\* A zero divisor is +0.0 (a sum of absolute values, a square): x / 0 is
\* infinite with the sign of x, and NaN for x = 0.
FDiv(x, y) ==
    IF y.n = 0 /\ y.d # 0 THEN Norm(x.n, 0)
    ELSE Norm(x.n * y.d * Sign(y.n), x.d * Abs(y.n))

FAbs(x) == [n |-> Abs(x.n), d |-> x.d]

\* Comparisons are false as soon as one operand is NaN.
FLt(x, y) == ~IsNaN(x) /\ ~IsNaN(y) /\ x.n * y.d < y.n * x.d

FGe(x, y) == ~IsNaN(x) /\ ~IsNaN(y) /\ x.n * y.d >= y.n * x.d

FGt(x, y) == FLt(y, x)

(***************************************************************************)
(* Swarm topology and stability controller                                 *)
(* (ArchT3/src/neural_swarm/prototypical_neural_unit.rs).                  *)
(* Weights, auto_inhibition_a and connection_cutoff are in units of 0.001; *)
(* weight vector coordinates in units of 0.1; squared distances in 0.01.   *)
(***************************************************************************)
\* let epsilon = 0.01
Epsilon == 10

\* Largest swarm explored.
MaxUnits == 3

LateralLink(t, w, p) == [target_id |-> t, weight |-> w, plasticity_rate |-> p]

PrototypicalNeuralUnit(id, wv, a) ==
    [id |-> id, weight_vector |-> wv, activation |-> R(0),
     auto_inhibition_a |-> a, lateral_links |-> <<>>]

\* The prototypes a swarm is built from: [1.0, 1.0], [1.0, 1.1] and [1.0, 3.0]
\* (tests::test_mexican_hat_topology).
Prototypes == { <<10, 10>>, <<10, 11>>, <<10, 30>> }

\* auto_inhibition_a of the first unit: 1.0 as in the tests, 0.004 and 0.0; the
\* other units have 1.0.
LeakChoices == {1000, 4, 0}

DefaultLeak == 1000

\* ids are the caller's choice: the slice index, or the slice index plus one.
IdOffsets == {0, 1}

TopologyConfig(se, si, ae, ai, cutoff, k) ==
    [sigma_excitation |-> se, sigma_inhibition |-> si,
     amp_excitation |-> ae, amp_inhibition |-> ai,
     connection_cutoff |-> cutoff, max_neighbors |-> k]

\* The configuration of tests::test_mexican_hat_topology.
TestConfig == TopologyConfig(5, 15, 2, 1, 10, 10)

Configs ==
    { TestConfig,
      TopologyConfig(5, 15, 2, 1, 10, 1),
      TopologyConfig(5, 15, 2, 1, 500, 2) }

\* Link lists pushed by hand onto a fresh unit (tests::test_gershgorin_stability).
ManualLinks ==
    { << LateralLink(1, R(800), 0), LateralLink(2, R(-800), 0) >>,
      << LateralLink(7, R(0), 5) >> }

RECURSIVE SumSq(_, _, _)
SumSq(a, b, m) ==
    IF m = 0 THEN 0 ELSE SumSq(a, b, m - 1) + (a[m] - b[m]) * (a[m] - b[m])

Min(a, b) == IF a < b THEN a ELSE b

\* semantic_distance squared: zip stops at the shorter vector; the code takes the
\* square root and wire squares it again.
semantic_distance_sq(u, v) ==
    SumSq(u.weight_vector, v.weight_vector,
          Min(Len(u.weight_vector), Len(v.weight_vector)))

\* 1000 * E.powf(-d2 / (2 sigma^2)), rounded, at the squared distances the
\* Prototypes produce (sigma in tenths, d2 in hundredths).
GaussMilli(sigma, d2) ==
    CASE sigma = 5  /\ d2 = 0   -> 1000
      [] sigma = 5  /\ d2 = 1   -> 980
      [] sigma = 5  /\ d2 = 361 -> 1
      [] sigma = 5  /\ d2 = 400 -> 0
      [] sigma = 15 /\ d2 = 0   -> 1000
      [] sigma = 15 /\ d2 = 1   -> 998
      [] sigma = 15 /\ d2 = 361 -> 448
      [] sigma = 15 /\ d2 = 400 -> 411

\* The hat upside down: inhibition - excitation.
MexicanHatInverted(c, d2) ==
    c.amp_inhibition * GaussMilli(c.sigma_inhibition, d2)
      - c.amp_excitation * GaussMilli(c.sigma_excitation, d2)

\* weight = excitation - inhibition (difference of Gaussians).
MexicanHat(c, d2) ==
    c.amp_excitation * GaussMilli(c.sigma_excitation, d2)
      - c.amp_inhibition * GaussMilli(c.sigma_inhibition, d2)

RECURSIVE SumAbsWeights(_, _)
SumAbsWeights(links, m) ==
    IF m = 0 THEN R(0)
    ELSE FAdd(SumAbsWeights(links, m - 1), FAbs(links[m].weight))

\* lateral_influx_sum
Influx(links) == SumAbsWeights(links, Len(links))

\* A rescaling onto the stability boundary itself, without the epsilon margin.
ScalingFactorNoMargin(a, influx) == FDiv(R(a), influx)

ScalingFactor(a, influx) == FDiv(FSub(R(a), R(Epsilon)), influx)

ScaleLinks(links, f) ==
    [p \in 1..Len(links) |->
        [links[p] EXCEPT !.weight = FMul(links[p].weight, f)]]

enforce_gershgorin_stability(u) ==
    LET lateral_influx_sum == Influx(u.lateral_links)
    IN  IF FGe(lateral_influx_sum, R(u.auto_inhibition_a))
        THEN [u EXCEPT !.lateral_links =
                 ScaleLinks(u.lateral_links,
                            ScalingFactor(u.auto_inhibition_a, lateral_influx_sum))]
        ELSE u

\* Candidate links gathered without the sparsity filter.
RECURSIVE PotentialLinksUnfiltered(_, _, _, _)
PotentialLinksUnfiltered(sw, i, c, m) ==
    IF m = 0 THEN <<>>
    ELSE LET rest == PotentialLinksUnfiltered(sw, i, c, m - 1)
             weight == MexicanHat(c, semantic_distance_sq(sw[i], sw[m]))
         IN  IF m = i THEN rest
             ELSE Append(rest, LateralLink(sw[m].id, R(weight), 10))

\* The candidate links of unit i (1-based position), in the order j = 0..n-1.
RECURSIVE PotentialLinks(_, _, _, _)
PotentialLinks(sw, i, c, m) ==
    IF m = 0 THEN <<>>
    ELSE LET rest == PotentialLinks(sw, i, c, m - 1)
             weight == MexicanHat(c, semantic_distance_sq(sw[i], sw[m]))
         IN  IF m = i THEN rest
             ELSE IF Abs(weight) > c.connection_cutoff
                  THEN Append(rest, LateralLink(sw[m].id, R(weight), 10))
                  ELSE rest

\* An ascending insertion: the comparison of the sort the wrong way round.
RECURSIVE InsertAscending(_, _)
InsertAscending(x, s) ==
    IF s = <<>> THEN <<x>>
    ELSE IF FGe(FAbs(x.weight), FAbs(Head(s).weight))
         THEN <<Head(s)>> \o InsertAscending(x, Tail(s))
         ELSE <<x>> \o s

\* Insert x behind every element whose |weight| is >= its own (stable, descending).
RECURSIVE InsertByAbsWeight(_, _)
InsertByAbsWeight(x, s) ==
    IF s = <<>> THEN <<x>>
    ELSE IF FGe(FAbs(Head(s).weight), FAbs(x.weight))
         THEN <<Head(s)>> \o InsertByAbsWeight(x, Tail(s))
         ELSE <<x>> \o s

\* potential_links.sort_by(|a, b| b.weight.abs().partial_cmp(&a.weight.abs()))
RECURSIVE SortByAbsWeight(_, _)
SortByAbsWeight(s, m) ==
    IF m = 0 THEN <<>>
    ELSE InsertByAbsWeight(s[m], SortByAbsWeight(s, m - 1))

Truncate(s, k) == IF Len(s) > k THEN SubSeq(s, 1, k) ELSE s

\* A rewiring that also mirrors every new link onto the unit it points to.
WireUnitMirroring(sw, i, c) ==
    LET potential_links == PotentialLinks(sw, i, c, Len(sw))
        sorted == SortByAbsWeight(potential_links, Len(potential_links))
        w == [sw EXCEPT ![i] = enforce_gershgorin_stability(
                [sw[i] EXCEPT !.lateral_links = Truncate(sorted, c.max_neighbors)])]
        links == w[i].lateral_links
        Names(j) == \E p \in 1..Len(links) : links[p].target_id = sw[j].id
    IN  [j \in 1..Len(sw) |->
            IF j # i /\ Names(j)
            THEN [w[j] EXCEPT !.lateral_links =
                                 Append(@, LateralLink(sw[i].id, links[1].weight, 10))]
            ELSE w[j]]

\* A rewiring that edits the list in place: the new candidates join the links
\* the unit already has.
WireUnitAppending(sw, i, c) ==
    LET potential_links == sw[i].lateral_links \o PotentialLinks(sw, i, c, Len(sw))
        sorted == SortByAbsWeight(potential_links, Len(potential_links))
    IN  [sw EXCEPT ![i] = enforce_gershgorin_stability(
            [sw[i] EXCEPT !.lateral_links = Truncate(sorted, c.max_neighbors)])]

\* One iteration of the loop over i: rewire unit i, then stabilise it.
WireUnit(sw, i, c) ==
    LET potential_links == PotentialLinks(sw, i, c, Len(sw))
        sorted == SortByAbsWeight(potential_links, Len(potential_links))
    IN  [sw EXCEPT ![i] = enforce_gershgorin_stability(
            [sw[i] EXCEPT !.lateral_links = Truncate(sorted, c.max_neighbors)])]

RECURSIVE WireLoop(_, _, _)
WireLoop(sw, m, c) ==
    IF m = 0 THEN sw ELSE WireUnit(WireLoop(sw, m - 1, c), m, c)

wire_swarm_topology(sw, c) == WireLoop(sw, Len(sw), c)

SwarmInit ==
    /\ \E n \in 1..MaxUnits : \E wv \in [1..n -> Prototypes] :
       \E a \in LeakChoices : \E off \in IdOffsets :
          swarm = [i \in 1..n |->
                     PrototypicalNeuralUnit(i - 1 + off, wv[i],
                                            IF i = 1 THEN a ELSE DefaultLeak)]
    /\ config = TestConfig
    /\ swarm_op = [op |-> "new", unit |-> 0]

\* Links pushed by hand onto unit i of a freshly built swarm.
PushLinks(i, links) ==
    /\ swarm_op.op = "new"
    /\ swarm' = [swarm EXCEPT ![i].lateral_links = links]
    /\ swarm_op' = [op |-> "push", unit |-> i]
    /\ UNCHANGED config
    /\ UNCHANGED notSwarm

Enforce(i) ==
    /\ swarm' = [swarm EXCEPT ![i] = enforce_gershgorin_stability(swarm[i])]
    /\ swarm_op' = [op |-> "enforce", unit |-> i]
    /\ UNCHANGED config
    /\ UNCHANGED notSwarm

Wire(c) ==
    /\ swarm' = wire_swarm_topology(swarm, c)
    /\ config' = c
    /\ swarm_op' = [op |-> "wire", unit |-> 0]
    /\ UNCHANGED notSwarm

SwarmNext ==
    \/ \E i \in 1..Len(swarm) : \E links \in ManualLinks : PushLinks(i, links)
    \/ \E i \in 1..Len(swarm) : Enforce(i)
    \/ \E c \in Configs : Wire(c)

(***************************************************************************)
(* Properties of the swarm topology and the stability controller.          *)
(***************************************************************************)
Dominant(u) == FLt(Influx(u.lateral_links), R(u.auto_inhibition_a))

\* C1: after enforce_gershgorin_stability has run on a unit, directly or as the
\* last step of wire_swarm_topology, the sum of |weight| over its lateral_links
\* is strictly below its auto_inhibition_a (stated for the units with a positive
\* auto_inhibition_a, the ones for which some rescaling meets the bound).
C1_DominantAfterEnforce ==
    /\ swarm_op.op = "enforce" =>
          (swarm[swarm_op.unit].auto_inhibition_a > 0
              => Dominant(swarm[swarm_op.unit]))
    /\ swarm_op.op = "wire" =>
          \A i \in 1..Len(swarm) :
             swarm[i].auto_inhibition_a > 0 => Dominant(swarm[i])

\* C2: after wire_swarm_topology every link's target_id is an index of the
\* swarm and is not the index of the link's owner.
C2_TargetsAreValidIndices ==
    swarm_op.op = "wire" =>
       \A i \in 1..Len(swarm) : \A p \in 1..Len(swarm[i].lateral_links) :
          /\ swarm[i].lateral_links[p].target_id < Len(swarm)
          /\ swarm[i].lateral_links[p].target_id # i - 1

\* The positions j # i whose Mexican Hat weight passes connection_cutoff.
Candidates(i) ==
    { j \in 1..Len(swarm) \ {i} :
        Abs(MexicanHat(config, semantic_distance_sq(swarm[i], swarm[j])))
           > config.connection_cutoff }

\* The positions whose id some link of unit i names.
Kept(i) ==
    { j \in 1..Len(swarm) :
        \E p \in 1..Len(swarm[i].lateral_links) :
           swarm[i].lateral_links[p].target_id = swarm[j].id }

HatAbs(i, j) == Abs(MexicanHat(config, semantic_distance_sq(swarm[i], swarm[j])))

\* C3: after wire with max_neighbors = k no unit has more than k links, the
\* links of unit i name min(k, number of candidates) distinct candidates, and no
\* candidate left out has a larger |weight| than a candidate kept.
C3_TopKSparsity ==
    swarm_op.op = "wire" =>
       \A i \in 1..Len(swarm) :
          /\ Len(swarm[i].lateral_links) <= config.max_neighbors
          /\ Len(swarm[i].lateral_links)
                = Min(config.max_neighbors, Cardinality(Candidates(i)))
          /\ Kept(i) \subseteq Candidates(i)
          /\ Cardinality(Kept(i)) = Len(swarm[i].lateral_links)
          /\ \A j \in Candidates(i) \ Kept(i) : \A h \in Kept(i) :
                HatAbs(i, h) >= HatAbs(i, j)

\* A wiring that had to drop a candidate: more candidates than max_neighbors >= 1.
C3_Witness ==
    /\ swarm_op.op = "wire"
    /\ config.max_neighbors >= 1
    /\ \E i \in 1..Len(swarm) :
          /\ Cardinality(Candidates(i)) > config.max_neighbors
          /\ \E j \in Candidates(i) \ Kept(i) : \E h \in Kept(i) :
                HatAbs(i, h) > HatAbs(i, j)

\* What one call of enforce on unit i may do to its links.
UniformRescaling(old, new, a) ==
    LET influx == Influx(old)
    IN  /\ Len(new) = Len(old)
        /\ \A p \in 1..Len(old) :
              /\ new[p].target_id = old[p].target_id
              /\ new[p].plasticity_rate = old[p].plasticity_rate
        /\ (FGe(influx, R(a)) /\ FGt(influx, R(0))) =>
              /\ \A p \in 1..Len(old) :
                    FMul(new[p].weight, influx)
                       = FMul(old[p].weight, FSub(R(a), R(Epsilon)))
              /\ \A p, q \in 1..Len(old) :
                    FMul(new[p].weight, old[q].weight)
                       = FMul(new[q].weight, old[p].weight)
        /\ (FGe(influx, R(a)) /\ influx = R(0)) =>
              \A p \in 1..Len(old) : IsNaN(new[p].weight)
        /\ ~FGe(influx, R(a)) => new = old

\* C4: enforce multiplies every link weight of the unit by the one factor
\* (auto_inhibition_a - 0.01) / influx when influx >= auto_inhibition_a (so the
\* ratio of any two weights is kept), changes no weight when influx is below
\* auto_inhibition_a, and never changes the number of links, a target_id or a
\* plasticity_rate.
C4_EnforceIsUniformRescaling ==
    [][swarm_op'.op = "enforce" =>
         UniformRescaling(swarm[swarm_op'.unit].lateral_links,
                          swarm'[swarm_op'.unit].lateral_links,
                          swarm[swarm_op'.unit].auto_inhibition_a)]_swarmVars

\* The outcome of tests::test_gershgorin_stability: 0.8 and -0.8 become 0.495
\* and -0.495.
C4_Witness ==
    /\ swarm_op.op = "enforce"
    /\ swarm[swarm_op.unit].auto_inhibition_a = 1000
    /\ swarm[swarm_op.unit].lateral_links
          = << LateralLink(1, R(495), 0), LateralLink(2, R(-495), 0) >>

\* C15 as claimed: when wire returns, every link of every unit has |weight| >
\* connection_cutoff (stated for the swarms whose units all have
\* auto_inhibition_a = 1.0, as in the tests).
C15_LinksAboveCutoff ==
    (swarm_op.op = "wire"
       /\ \A i \in 1..Len(swarm) : swarm[i].auto_inhibition_a = DefaultLeak) =>
      \A i \in 1..Len(swarm) : \A p \in 1..Len(swarm[i].lateral_links) :
         FGt(FAbs(swarm[i].lateral_links[p].weight), R(config.connection_cutoff))

\* The sum of the Mexican Hat |weight| of the kept targets among the first m
\* positions.
RECURSIVE KeptHatSum(_, _)
KeptHatSum(i, m) ==
    IF m = 0 THEN 0
    ELSE KeptHatSum(i, m - 1) + (IF m \in Kept(i) THEN HatAbs(i, m) ELSE 0)

\* C15, amended: connection_cutoff bounds the Mexican Hat weight of a link, not
\* the weight stored.  When wire returns every link names a unit j # i whose
\* Mexican Hat |weight| exceeds connection_cutoff; the stored |weight| is that
\* value if the kept values sum to less than auto_inhibition_a, and that value
\* times |a - 0.01| / sum otherwise.
C15_CutoffBoundsCandidates ==
    swarm_op.op = "wire" =>
       \A i \in 1..Len(swarm) : \A p \in 1..Len(swarm[i].lateral_links) :
          LET link == swarm[i].lateral_links[p]
              a == swarm[i].auto_inhibition_a
              sum == KeptHatSum(i, Len(swarm))
          IN  \E j \in 1..Len(swarm) \ {i} :
                 /\ swarm[j].id = link.target_id
                 /\ HatAbs(i, j) > config.connection_cutoff
                 /\ IF sum < a
                    THEN FAbs(link.weight) = R(HatAbs(i, j))
                    ELSE FMul(FAbs(link.weight), R(sum))
                            = R(HatAbs(i, j) * Abs(a - Epsilon))

\* A unit with auto_inhibition_a = 1.0 whose stored weights the stabilisation
\* brought below connection_cutoff.
C15_Witness ==
    /\ swarm_op.op = "wire"
    /\ \E i \in 1..Len(swarm) :
          /\ swarm[i].auto_inhibition_a = DefaultLeak
          /\ Len(swarm[i].lateral_links) = 2
          /\ \A p \in 1..2 :
                /\ FLt(FAbs(swarm[i].lateral_links[p].weight),
                       R(config.connection_cutoff))
                /\ FGt(swarm[i].lateral_links[p].weight, R(0))

\* C29: an enforce step never changes the sign of a link weight: a weight > 0
\* stays > 0 and a weight < 0 stays < 0, for every unit, so the link is routed
\* to the same sum of calculate_lateral_input before and after.
C29_EnforceKeepsSigns ==
    [][swarm_op'.op = "enforce" =>
         LET before == swarm[swarm_op'.unit].lateral_links
             after == swarm'[swarm_op'.unit].lateral_links
         IN  /\ Len(after) = Len(before)
             /\ \A p \in 1..Len(before) :
                   /\ FGt(before[p].weight, R(0)) => FGt(after[p].weight, R(0))
                   /\ FLt(before[p].weight, R(0)) => FLt(after[p].weight, R(0))
      ]_swarmVars

\* The positions of unit i's links that point to unit j.
LinksTo(i, j) ==
    { p \in 1..Len(swarm[i].lateral_links) :
         swarm[i].lateral_links[p].target_id = swarm[j].id }

Unlinked(sw) == [i \in 1..Len(sw) |-> [sw[i] EXCEPT !.lateral_links = <<>>]]

\* C16: wire replaces every lateral_links wholesale: the swarm it leaves is the
\* one it would leave had no unit had any link before, a second wire with the
\* same config changes nothing, and no unit's id, weight_vector, activation or
\* auto_inhibition_a changes.
C16_WireReplacesLinks ==
    [][swarm_op'.op = "wire" =>
          /\ swarm' = wire_swarm_topology(Unlinked(swarm), config')
          /\ wire_swarm_topology(swarm', config') = swarm'
          /\ Unlinked(swarm') = Unlinked(swarm)]_swarmVars

\* A swarm rewired to a single neighbour per unit, two of its units each
\* linked to the other.
C16_Witness ==
    /\ swarm_op.op = "wire"
    /\ config.max_neighbors = 1
    /\ Len(swarm) = 3
    /\ \A i \in 1..2 : Len(swarm[i].lateral_links) = 1
    /\ swarm[1].lateral_links[1].target_id = swarm[2].id
    /\ swarm[2].lateral_links[1].target_id = swarm[1].id

(***************************************************************************)
(* Wiring unit by unit: the iterations of the loop of wire_swarm_topology,  *)
(* taken in any order.                                                     *)
(***************************************************************************)
\* No calculate_lateral_input has been called.
NoLateralInput == [op |-> "idle", unit |-> 0, status |-> "none", sums |-> <<>>]

OrderInit ==
    /\ \E n \in 1..MaxUnits : \E wv \in [1..n -> Prototypes] :
       \E a \in LeakChoices : \E off \in IdOffsets :
          swarm = [i \in 1..n |->
                     PrototypicalNeuralUnit(i - 1 + off, wv[i],
                                            IF i = 1 THEN a ELSE DefaultLeak)]
    /\ config \in Configs
    /\ swarm_op = [op |-> "new", unit |-> 0]
    /\ lat_result = NoLateralInput
    /\ wired = {}

\* The iteration for unit i, run once per unit.
WireOne(i) ==
    /\ i \notin wired
    /\ swarm' = WireUnit(swarm, i, config)
    /\ wired' = wired \cup {i}
    /\ swarm_op' = [op |-> "wire_unit", unit |-> i]
    /\ UNCHANGED <<config, lat_result, sigVars, segVars, normVars, accVars, uvVars, scanVars,
                   demoVars>>

OrderNext == \E i \in 1..Len(swarm) : WireOne(i)

\* The swarm reduced to what the wiring of unit i may read: weight vectors, ids
\* and unit i's own auto_inhibition_a.
Bare(sw, i) ==
    [j \in 1..Len(sw) |->
        PrototypicalNeuralUnit(sw[j].id, sw[j].weight_vector,
                               IF j = i THEN sw[j].auto_inhibition_a
                               ELSE DefaultLeak)]

\* C17: wiring unit i writes nothing but unit i's lateral_links, the links it
\* writes are those computed from the weight vectors, the ids, unit i's own
\* auto_inhibition_a and the config alone, and once every unit has been wired,
\* in whatever order, the swarm is the one the loop i = 0..n-1 produces.
C17_WiringOrderIndependent ==
    /\ [](wired = 1..Len(swarm) =>
            swarm = wire_swarm_topology(Unlinked(swarm), config))
    /\ [][swarm_op'.op = "wire_unit" =>
            LET i == swarm_op'.unit
            IN  /\ \A j \in 1..Len(swarm) \ {i} : swarm'[j] = swarm[j]
                /\ Unlinked(swarm') = Unlinked(swarm)
                /\ swarm'[i].lateral_links
                      = WireUnit(Bare(swarm, i), i, config)[i].lateral_links]_<<swarmVars, wired>>

\* Three units wired last to first, the first and the last holding links.
C17_Witness ==
    /\ wired = 1..3
    /\ Len(swarm) = 3
    /\ swarm_op = [op |-> "wire_unit", unit |-> 1]
    /\ swarm[1].lateral_links # <<>>
    /\ swarm[3].lateral_links # <<>>
    /\ swarm[1].auto_inhibition_a # DefaultLeak

(***************************************************************************)
(* Diffusion dynamics: calculate_lateral_input, read off a swarm whose      *)
(* units carry activations.                                                *)
(***************************************************************************)
\* The swarm of tests::test_mexican_hat_topology, repeated beyond three units.
TestPrototype(i) == << <<10, 10>>, <<10, 11>>, <<10, 30>> >>[((i - 1) % 3) + 1]

\* state.activation of unit i in an active swarm: 2.0, -1.0, 1.0, 2.0, ...
ActivationOf(i) == << R(2), R(-1), R(1) >>[((i - 1) % 3) + 1]

\* Hand-built links with targets inside the swarm: the unstable pair of
\* tests::test_gershgorin_stability aimed at units 0 and 1, and a silent link.
LatManualLinks ==
    { << LateralLink(0, R(800), 0), LateralLink(1, R(-800), 0) >>,
      << LateralLink(0, R(0), 0) >> }

\* f32::max(x, 0.0): the other operand when one is NaN.
Max0(x) == IF IsNaN(x) \/ FLt(x, R(0)) THEN R(0) ELSE x

\* The loop that skips a link whose target is not in the swarm.
RECURSIVE LateralLoopSkipping(_, _, _)
LateralLoopSkipping(pnu, sw, m) ==
    IF m = 0 THEN [failed |-> FALSE, exc_sum |-> R(0), inh_sum |-> R(0)]
    ELSE LET acc == LateralLoopSkipping(pnu, sw, m - 1)
             link == pnu.lateral_links[m]
         IN  IF link.target_id >= Len(sw) THEN acc
             ELSE LET signal == Max0(sw[link.target_id + 1].activation)
                  IN  IF FGt(link.weight, R(0))
                      THEN [acc EXCEPT !.exc_sum = FAdd(@, FMul(link.weight, signal))]
                      ELSE [acc EXCEPT !.inh_sum =
                                          FAdd(@, FMul(FAbs(link.weight), signal))]

\* The loop over the first m links: swarm[link.target_id] panics on an index
\* out of range, and the sums so far are lost with the call.
RECURSIVE LateralLoop(_, _, _)
LateralLoop(pnu, sw, m) ==
    IF m = 0 THEN [failed |-> FALSE, exc_sum |-> R(0), inh_sum |-> R(0)]
    ELSE LET acc == LateralLoop(pnu, sw, m - 1)
             link == pnu.lateral_links[m]
         IN  IF acc.failed \/ link.target_id >= Len(sw)
             THEN [failed |-> TRUE, exc_sum |-> R(0), inh_sum |-> R(0)]
             ELSE LET signal == Max0(sw[link.target_id + 1].activation)
                  IN  IF FGt(link.weight, R(0))
                      THEN [acc EXCEPT !.exc_sum = FAdd(@, FMul(link.weight, signal))]
                      ELSE [acc EXCEPT !.inh_sum =
                                          FAdd(@, FMul(FAbs(link.weight), signal))]

\* calculate_lateral_input(pnu, swarm): (exc_sum, inh_sum), or the panic.
calculate_lateral_input(pnu, sw) ==
    LET r == LateralLoop(pnu, sw, Len(pnu.lateral_links))
    IN  IF r.failed THEN [status |-> "BrokenTopology", sums |-> <<>>]
        ELSE [status |-> "ok", sums |-> <<r.exc_sum, r.inh_sum>>]

\* A swarm of n units with activations, the first with leak a.
LatInit ==
    /\ \E n \in 1..MaxUnits : \E a \in LeakChoices : \E off \in IdOffsets :
       \E active \in BOOLEAN :
          swarm = [i \in 1..n |->
                     [PrototypicalNeuralUnit(i - 1 + off, TestPrototype(i),
                                             IF i = 1 THEN a ELSE DefaultLeak)
                        EXCEPT !.activation = IF active THEN ActivationOf(i)
                                              ELSE R(0)]]
    /\ config = TestConfig
    /\ swarm_op = [op |-> "new", unit |-> 0]
    /\ lat_result = NoLateralInput
    /\ wired = {}

\* calculate_lateral_input reads the swarm and changes nothing; the calls that
\* change the swarm are explored before it.
LateralInput(i) ==
    /\ LET r == calculate_lateral_input(swarm[i], swarm)
       IN  lat_result' = [op |-> "lateral_input", unit |-> i,
                          status |-> r.status, sums |-> r.sums]
    /\ UNCHANGED <<swarmVars, wired, sigVars, segVars, normVars, accVars, uvVars, scanVars,
                   demoVars>>

LatPushLinks(i, links) == lat_result = NoLateralInput /\ PushLinks(i, links)

LatEnforce(i) == lat_result = NoLateralInput /\ Enforce(i)

LatWire(c) == lat_result = NoLateralInput /\ Wire(c)

LatNext ==
    \/ \E i \in 1..Len(swarm) : \E links \in LatManualLinks : LatPushLinks(i, links)
    \/ \E i \in 1..Len(swarm) : LatEnforce(i)
    \/ \E c \in Configs : LatWire(c)
    \/ \E i \in 1..Len(swarm) : LateralInput(i)

LateralInputCalled == lat_result.op = "lateral_input"

LinksOf(i) == swarm[i].lateral_links

\* C13: calculate_lateral_input fails, returning no sums, exactly when some
\* link of the unit has target_id >= len(swarm); such a link is never skipped.
C13_BrokenTopologyIsFatal ==
    LateralInputCalled =>
       LET links == LinksOf(lat_result.unit)
           broken == \E p \in 1..Len(links) : links[p].target_id >= Len(swarm)
       IN  /\ broken <=> lat_result.status = "BrokenTopology"
           /\ broken => lat_result.sums = <<>>
           /\ ~broken => Len(lat_result.sums) = 2

\* A unit with one link into the swarm and one past its end.
C13_Witness ==
    /\ LateralInputCalled
    /\ lat_result.status = "BrokenTopology"
    /\ \E p, q \in 1..Len(LinksOf(lat_result.unit)) :
          /\ LinksOf(lat_result.unit)[p].target_id < Len(swarm)
          /\ LinksOf(lat_result.unit)[q].target_id >= Len(swarm)
    /\ swarm[1].activation = R(2)

\* max(0, activation) of the neighbour a link points to.
SignalOf(link) == Max0(swarm[link.target_id + 1].activation)

\* The sum of |weight| * signal over the first m links that are excitatory
\* (weight > 0), or over those that are not.
RECURSIVE RoutedSum(_, _, _)
RoutedSum(links, m, excitatory) ==
    IF m = 0 THEN R(0)
    ELSE IF FGt(links[m].weight, R(0)) = excitatory
         THEN FAdd(RoutedSum(links, m - 1, excitatory),
                   FMul(FAbs(links[m].weight), SignalOf(links[m])))
         ELSE RoutedSum(links, m - 1, excitatory)

\* C14: a call that returns gives excitatorySum = sum of weight * max(0,
\* activation[target]) over the links with weight > 0 and inhibitorySum = sum of
\* |weight| * max(0, activation[target]) over the others; both sums are >= 0,
\* and the links to neighbours with activation <= 0 contribute nothing: the
\* sums are those of the unit without these links.
C14_LateralSums ==
    (LateralInputCalled /\ lat_result.status = "ok") =>
       LET unit == swarm[lat_result.unit]
           links == unit.lateral_links
           IsActive(link) == FGt(swarm[link.target_id + 1].activation, R(0))
           active == [unit EXCEPT !.lateral_links = SelectSeq(links, IsActive)]
       IN  /\ lat_result.sums[1] = RoutedSum(links, Len(links), TRUE)
           /\ lat_result.sums[2] = RoutedSum(links, Len(links), FALSE)
           /\ FGe(lat_result.sums[1], R(0))
           /\ FGe(lat_result.sums[2], R(0))
           /\ lat_result.sums = calculate_lateral_input(active, swarm).sums

(***************************************************************************)
(* Path signatures (ArchT3/src/perception/universal_vector.rs): levels 1-3 *)
(* over the two channels (dt, dx), combined by Chen's identity.            *)
(***************************************************************************)
\* level1: (f64, f64), level2: [[f64; 2]; 2], level3: [[[f64; 2]; 2]; 2]
Dim == 2

\* Increments (dt, dx) range over 0..MaxDt x -MaxDx..MaxDx.
MaxDt == 1

MaxDx == 1

Increments == (0..MaxDt) \X (-MaxDx..MaxDx)

\* A second leg appended to every operand: none (the operand is one straight
\* segment) or a turn (the operand is the signature of a bent path).
Tails == { <<0, 0>>, <<1, -1>> }

Half == [n |-> 1, d |-> 2]

Six == R(6)

SignatureZero ==
    [level1 |-> [i \in 1..Dim |-> R(0)],
     level2 |-> [i \in 1..Dim |-> [j \in 1..Dim |-> R(0)]],
     level3 |-> [i \in 1..Dim |-> [j \in 1..Dim |-> [k \in 1..Dim |-> R(0)]]]]

\* A straight segment whose third level is divided by 3 instead of 6.
from_segment_wrong_level3(dt, dx) ==
    LET vec == <<dt, dx>>
    IN  [level1 |-> vec,
         level2 |-> [i \in 1..Dim |-> [j \in 1..Dim |->
                        FMul(FMul(vec[i], vec[j]), Half)]],
         level3 |-> [i \in 1..Dim |-> [j \in 1..Dim |-> [k \in 1..Dim |->
                        FDiv(FMul(FMul(vec[i], vec[j]), vec[k]), R(3))]]]]

\* Signature::from_segment: the exact signature of one linear increment.
from_segment(dt, dx) ==
    LET vec == <<dt, dx>>
    IN  [level1 |-> vec,
         level2 |-> [i \in 1..Dim |-> [j \in 1..Dim |->
                        FMul(FMul(vec[i], vec[j]), Half)]],
         level3 |-> [i \in 1..Dim |-> [j \in 1..Dim |-> [k \in 1..Dim |->
                        FDiv(FMul(FMul(vec[i], vec[j]), vec[k]), Six)]]]]

\* Chen's product without the term S(a)^2 (x) S(b)^1 of the third level.
combine_dropped_term(a, b) ==
    [level1 |-> [i \in 1..Dim |-> FAdd(a.level1[i], b.level1[i])],
     level2 |-> [i \in 1..Dim |-> [j \in 1..Dim |->
                    FAdd(FAdd(a.level2[i][j], b.level2[i][j]),
                         FMul(a.level1[i], b.level1[j]))]],
     level3 |-> [i \in 1..Dim |-> [j \in 1..Dim |-> [k \in 1..Dim |->
                    FAdd(FAdd(a.level3[i][j][k], b.level3[i][j][k]),
                         FMul(a.level1[i], b.level2[j][k]))]]]]

\* Signature::combine: S(ab) = S(a) (x) S(b), truncated at level 3.
combine(a, b) ==
    [level1 |-> [i \in 1..Dim |-> FAdd(a.level1[i], b.level1[i])],
     level2 |-> [i \in 1..Dim |-> [j \in 1..Dim |->
                    FAdd(FAdd(a.level2[i][j], b.level2[i][j]),
                         FMul(a.level1[i], b.level1[j]))]],
     level3 |-> [i \in 1..Dim |-> [j \in 1..Dim |-> [k \in 1..Dim |->
                    FAdd(FAdd(FAdd(a.level3[i][j][k], b.level3[i][j][k]),
                              FMul(a.level1[i], b.level2[j][k])),
                         FMul(a.level2[i][j], b.level1[k]))]]]]

SegmentOf(inc) == from_segment(R(inc[1]), R(inc[2]))

NoSignature == <<>>

SigInit ==
    /\ sig_in \in [1..3 -> Increments]
    /\ sig_tail \in Tails
    /\ sig_pc = "new"
    /\ sig_ops = <<>>
    /\ sig_left = NoSignature
    /\ sig_right = NoSignature
    /\ sig_pair = NoSignature
    /\ sig_direct = NoSignature

\* The three operands a, b, c: each increment's segment followed by the tail.
BuildOperands ==
    /\ sig_pc = "new"
    /\ sig_ops' = [i \in 1..3 |-> combine(SegmentOf(sig_in[i]), SegmentOf(sig_tail))]
    /\ sig_pc' = "built"
    /\ UNCHANGED <<sig_in, sig_tail, sig_left, sig_right, sig_pair, sig_direct>>
    /\ UNCHANGED notSig

\* a.combine(&b).combine(&c)
CombineLeft ==
    /\ sig_pc = "built"
    /\ sig_left' = combine(combine(sig_ops[1], sig_ops[2]), sig_ops[3])
    /\ sig_pc' = "left"
    /\ UNCHANGED <<sig_in, sig_tail, sig_ops, sig_right, sig_pair, sig_direct>>
    /\ UNCHANGED notSig

\* a.combine(&b.combine(&c))
CombineRight ==
    /\ sig_pc = "left"
    /\ sig_right' = combine(sig_ops[1], combine(sig_ops[2], sig_ops[3]))
    /\ sig_pc' = "right"
    /\ UNCHANGED <<sig_in, sig_tail, sig_ops, sig_left, sig_pair, sig_direct>>
    /\ UNCHANGED notSig

\* a.combine(&b)
CombinePair ==
    /\ sig_pc = "right"
    /\ sig_pair' = combine(sig_ops[1], sig_ops[2])
    /\ sig_pc' = "pair"
    /\ UNCHANGED <<sig_in, sig_tail, sig_ops, sig_left, sig_right, sig_direct>>
    /\ UNCHANGED notSig

\* Signature::from_segment(dt1 + dt2, dx1 + dx2)
SegmentInOneStep ==
    /\ sig_pc = "pair"
    /\ sig_direct' = from_segment(R(sig_in[1][1] + sig_in[2][1]),
                                  R(sig_in[1][2] + sig_in[2][2]))
    /\ sig_pc' = "done"
    /\ UNCHANGED <<sig_in, sig_tail, sig_ops, sig_left, sig_right, sig_pair>>
    /\ UNCHANGED notSig

SigNext ==
    \/ BuildOperands
    \/ CombineLeft
    \/ CombineRight
    \/ CombinePair
    \/ SegmentInOneStep

\* C5: Chen associativity: combine(combine(a, b), c) equals
\* combine(a, combine(b, c)) on level1, level2 and level3, for single-increment
\* signatures and for signatures of bent paths.
C5_ChenAssociativity ==
    sig_pc \in {"right", "pair", "done"} =>
       /\ sig_left.level1 = sig_right.level1
       /\ sig_left.level2 = sig_right.level2
       /\ sig_left.level3 = sig_right.level3

\* Both groupings computed for three operands that do not commute.
C5_Witness ==
    /\ sig_pc = "right"
    /\ combine(sig_ops[1], sig_ops[2]) # combine(sig_ops[2], sig_ops[1])
    /\ combine(sig_ops[2], sig_ops[3]) # combine(sig_ops[3], sig_ops[2])
    /\ sig_right.level3[1][2][1] # R(0)

\* Two increments on one line through the origin, pointing the same way.
Collinear(u, v) == u[1] * v[2] = u[2] * v[1] /\ u[1] * v[1] + u[2] * v[2] >= 0

\* C6: straight-line invariance under resampling: for two collinear
\* sub-increments with the same direction, combine(from_segment(dt1, dx1),
\* from_segment(dt2, dx2)) equals from_segment(dt1 + dt2, dx1 + dx2) on all
\* three levels.
C6_StraightLineInvariance ==
    (sig_pc = "done" /\ sig_tail = <<0, 0>> /\ Collinear(sig_in[1], sig_in[2])) =>
       /\ sig_pair.level1 = sig_direct.level1
       /\ sig_pair.level2 = sig_direct.level2
       /\ sig_pair.level3 = sig_direct.level3

\* A straight segment with dt and dx both moving, split into two proper parts.
C6_Witness ==
    /\ sig_pc = "done"
    /\ sig_tail = <<0, 0>>
    /\ Collinear(sig_in[1], sig_in[2])
    /\ sig_in[1][1] # 0 /\ sig_in[1][2] # 0
    /\ sig_in[2][1] # 0 /\ sig_in[2][2] # 0
    /\ sig_direct.level3[1][2][2] # R(0)

(***************************************************************************)
(* Zero-crossing segmenter (src/perception/universal_transducer.rs,        *)
(* segment_and_process).  Samples are in units of 0.5e-6; indices are the  *)
(* code's, from 0.                                                         *)
(***************************************************************************)
\* if dx.abs() < 1e-6 { continue; }
NoiseThreshold == 2

\* if segment_raw.len() >= 3
MinSegmentLen == 3

\* Longest input explored.
MaxLen == 5

\* 1.0 in sample units.
One == 1000000 * NoiseThreshold

\* First-dimension values: 1.0, 1.0 + 0.5e-6 (a step below the noise
\* threshold), 2.0 and 3.0.
SampleValues == {One, One + 1, 2 * One, 3 * One}

\* len(times) - len(raw)
TimeSkews == {-1, 0, 1}

\* Unit timestamps 0, 1, 2, ...
UnitTimes(n) == [k \in 1..n |-> k - 1]

\* &s[lo..hi]
Slice(s, lo, hi) == SubSeq(s, lo + 1, hi)

\* dx.signum() of a nonzero dx
Signum(dx) == IF dx < 0 THEN -1 ELSE 1

\* The next segment starting at the sample after the pivot.
NextStartAfterPivot(i) == i

\* start_idx = i - 1: the pivot sample is kept for the next segment.
NextStart(i) == i - 1

\* Runs of two samples count as segments.
SignificantFromTwo(segment_raw) == Len(segment_raw) >= MinSegmentLen - 1

\* if segment_raw.len() >= 3
Significant(segment_raw) == Len(segment_raw) >= MinSegmentLen

\* What create_vector_from_slice is called with (the emitted UniversalVector is
\* built from these two slices).
create_vector_from_slice(segment_raw, segment_times) ==
    [raw |-> segment_raw, times |-> segment_times]

SegInit ==
    /\ \E n \in 0..MaxLen : \E first \in [1..n -> SampleValues] :
       \E skew \in TimeSkews :
          /\ n + skew >= 0
          /\ seg_raw = [k \in 1..n |-> <<first[k]>>]
          /\ seg_times = UnitTimes(n + skew)
    /\ seg_pc = "start"
    /\ seg_i = 0
    /\ seg_start_idx = 0
    /\ seg_current_sign = 0
    /\ seg_vectors = <<>>

\* if raw.len() < 2 { return vec![]; }
SegEnter ==
    /\ seg_pc = "start"
    /\ IF Len(seg_raw) < 2
       THEN seg_pc' = "done" /\ seg_i' = seg_i
       ELSE seg_pc' = "loop" /\ seg_i' = 1
    /\ UNCHANGED <<seg_raw, seg_times, seg_start_idx, seg_current_sign, seg_vectors>>
    /\ UNCHANGED notSeg

\* An iteration without the noise test: every step carries a sign.
SegLoopStepNoiseBlind ==
    /\ seg_pc = "loop"
    /\ LET i == seg_i
           dx == seg_raw[i + 1][1] - seg_raw[i][1]
           sign == Signum(dx)
           established == IF seg_current_sign = 0 THEN sign ELSE seg_current_sign
           next_pc == IF i + 1 < Len(seg_raw) THEN "loop" ELSE "flush"
       IN  IF sign # established
           THEN IF i > Len(seg_times)
                THEN /\ seg_pc' = "panic"
                     /\ UNCHANGED <<seg_i, seg_start_idx, seg_current_sign, seg_vectors>>
                ELSE LET segment_raw == Slice(seg_raw, seg_start_idx, i)
                         segment_times == Slice(seg_times, seg_start_idx, i)
                     IN  /\ seg_vectors' =
                              IF Significant(segment_raw)
                              THEN Append(seg_vectors,
                                     create_vector_from_slice(segment_raw, segment_times))
                              ELSE seg_vectors
                         /\ seg_start_idx' = NextStart(i)
                         /\ seg_current_sign' = sign
                         /\ seg_pc' = next_pc
                         /\ seg_i' = i + 1
           ELSE /\ seg_current_sign' = established
                /\ seg_pc' = next_pc
                /\ seg_i' = i + 1
                /\ UNCHANGED <<seg_start_idx, seg_vectors>>
    /\ UNCHANGED <<seg_raw, seg_times>>
    /\ UNCHANGED notSeg

\* One iteration of for i in 1..raw.len().
SegLoopStep ==
    /\ seg_pc = "loop"
    /\ LET i == seg_i
           dx == seg_raw[i + 1][1] - seg_raw[i][1]
           sign == Signum(dx)
           established == IF seg_current_sign = 0 THEN sign ELSE seg_current_sign
           next_pc == IF i + 1 < Len(seg_raw) THEN "loop" ELSE "flush"
       IN  IF Abs(dx) < NoiseThreshold
           THEN /\ seg_pc' = next_pc
                /\ seg_i' = i + 1
                /\ UNCHANGED <<seg_start_idx, seg_current_sign, seg_vectors>>
           ELSE IF sign # established
           THEN IF i > Len(seg_times)
                THEN \* &times[start_idx..i] is out of range
                     /\ seg_pc' = "panic"
                     /\ UNCHANGED <<seg_i, seg_start_idx, seg_current_sign, seg_vectors>>
                ELSE LET segment_raw == Slice(seg_raw, seg_start_idx, i)
                         segment_times == Slice(seg_times, seg_start_idx, i)
                     IN  /\ seg_vectors' =
                              IF Significant(segment_raw)
                              THEN Append(seg_vectors,
                                     create_vector_from_slice(segment_raw, segment_times))
                              ELSE seg_vectors
                         /\ seg_start_idx' = NextStart(i)
                         /\ seg_current_sign' = sign
                         /\ seg_pc' = next_pc
                         /\ seg_i' = i + 1
           ELSE /\ seg_current_sign' = established
                /\ seg_pc' = next_pc
                /\ seg_i' = i + 1
                /\ UNCHANGED <<seg_start_idx, seg_vectors>>
    /\ UNCHANGED <<seg_raw, seg_times>>
    /\ UNCHANGED notSeg

\* The trailing segment: if start_idx < raw.len() - 1 { ... }
SegFlush ==
    /\ seg_pc = "flush"
    /\ IF seg_start_idx < Len(seg_raw) - 1
       THEN IF seg_start_idx > Len(seg_times)
            THEN \* &times[start_idx..] is out of range
                 seg_pc' = "panic" /\ UNCHANGED seg_vectors
            ELSE LET segment_raw == Slice(seg_raw, seg_start_idx, Len(seg_raw))
                     segment_times == Slice(seg_times, seg_start_idx, Len(seg_times))
                 IN  IF ~Significant(segment_raw)
                     THEN seg_pc' = "done" /\ UNCHANGED seg_vectors
                     ELSE IF Len(segment_times) # Len(segment_raw)
                     THEN \* assert_eq!(t.len(), raw.len())
                          seg_pc' = "panic" /\ UNCHANGED seg_vectors
                     ELSE /\ seg_pc' = "done"
                          /\ seg_vectors' = Append(seg_vectors,
                                create_vector_from_slice(segment_raw, segment_times))
       ELSE seg_pc' = "done" /\ UNCHANGED seg_vectors
    /\ UNCHANGED <<seg_raw, seg_times, seg_i, seg_start_idx, seg_current_sign>>
    /\ UNCHANGED notSeg

SegNext ==
    \/ SegEnter
    \/ SegLoopStep
    \/ SegFlush

\* The first-dimension values 1, 2, 3, 2, 1.
PeakInput == << <<One>>, <<2 * One>>, <<3 * One>>, <<2 * One>>, <<One>> >>

\* The step into sample i reverses the running direction.
FlipAt(i) ==
    LET dx == seg_raw[i + 1][1] - seg_raw[i][1]
    IN  /\ Abs(dx) >= NoiseThreshold
        /\ seg_current_sign # 0
        /\ Signum(dx) # seg_current_sign

IsRangeOfInput(v) ==
    \E lo \in 1..Len(seg_raw) :
       /\ lo + Len(v.raw) - 1 <= Len(seg_raw)
       /\ v.raw = SubSeq(seg_raw, lo, lo + Len(v.raw) - 1)
       /\ v.times = SubSeq(seg_times, lo, lo + Len(v.raw) - 1)

\* C8: every emitted segment is a contiguous index range of the input with at
\* least 3 samples and as many timestamps, taken from the same indices; shorter
\* runs are dropped without error (for inputs with len(raw) = len(times)), and
\* an input with fewer than 3 samples yields no segment.
C8_SegmentsWellFormed ==
    /\ \A p \in 1..Len(seg_vectors) :
          /\ Len(seg_vectors[p].raw) >= 3
          /\ Len(seg_vectors[p].times) = Len(seg_vectors[p].raw)
          /\ IsRangeOfInput(seg_vectors[p])
    /\ Len(seg_raw) = Len(seg_times) => seg_pc # "panic"
    /\ Len(seg_raw) < 3 => (seg_vectors = <<>> /\ seg_pc # "panic")

\* A run too short was dropped and a later one emitted.
C8_Witness ==
    /\ seg_pc = "done"
    /\ Len(seg_raw) = Len(seg_times)
    /\ Len(seg_vectors) >= 1
    /\ seg_vectors[1].raw # SubSeq(seg_raw, 1, Len(seg_vectors[1].raw))

\* C9: segment fails for every input with len(raw) # len(times): it never
\* returns normally, so it returns no segments (stated for the inputs of at
\* least 3 samples, which the early return for len(raw) < 2 does not cover).
C9_LengthMismatchFails ==
    (Len(seg_raw) >= 3 /\ Len(seg_raw) # Len(seg_times)) => seg_pc # "done"

\* dx of the step from sample i - 1 to sample i.
StepDx(i) == seg_raw[i + 1][1] - seg_raw[i][1]

\* No two steps of the input with |dx| >= 1e-6 have opposite signs.
NeverReverses ==
    \A i, j \in 1..(Len(seg_raw) - 1) :
        (Abs(StepDx(i)) >= NoiseThreshold /\ Abs(StepDx(j)) >= NoiseThreshold)
           => Signum(StepDx(i)) = Signum(StepDx(j))

\* C23: a step with |dx| < 1e-6 leaves the running sign, the segment start and
\* the emitted segments as they are; the first step with |dx| >= 1e-6 sets the
\* running sign and closes nothing; a segment is closed only at a step with
\* |dx| >= 1e-6 whose sign is opposite to an established running sign; and an
\* input that never reverses yields at most one segment, the whole input.
C23_NoiseNeverBreaks ==
    /\ [][seg_pc = "loop" =>
            LET dx == StepDx(seg_i)
                closed == seg_start_idx' # seg_start_idx \/ seg_vectors' # seg_vectors
                          \/ seg_pc' = "panic"
            IN  /\ Abs(dx) < NoiseThreshold =>
                      (seg_current_sign' = seg_current_sign /\ ~closed)
                /\ (Abs(dx) >= NoiseThreshold /\ seg_current_sign = 0) =>
                      (seg_current_sign' = Signum(dx) /\ ~closed)
                /\ closed => /\ Abs(dx) >= NoiseThreshold
                             /\ seg_current_sign # 0
                             /\ Signum(dx) = -seg_current_sign
                /\ seg_current_sign' # seg_current_sign =>
                      Abs(dx) >= NoiseThreshold]_segVars
    /\ []((seg_pc = "done" /\ NeverReverses) =>
            /\ Len(seg_vectors) <= 1
            /\ \A p \in 1..Len(seg_vectors) : seg_vectors[p].raw = seg_raw)

\* A rising input with a noise step in it came out as one segment.
C23_Witness ==
    /\ seg_pc = "done"
    /\ NeverReverses
    /\ Len(seg_vectors) = 1
    /\ \E i \in 1..(Len(seg_raw) - 1) : StepDx(i) # 0 /\ Abs(StepDx(i)) < NoiseThreshold
    /\ \E i \in 1..(Len(seg_raw) - 1) : Abs(StepDx(i)) >= NoiseThreshold

(***************************************************************************)
(* create_vector_from_slice (src/perception/universal_transducer.rs): the   *)
(* fold of combine over the increments of a segment.  The Signature it      *)
(* calls, of any dimension d, is the one the specification describes.       *)
(***************************************************************************)
\* Most rows in a segment (a segment has at least MinSegmentLen).
MaxRows == 3

\* Longest row.
MaxRowLen == 2

\* A row: a first coordinate 0.0 or 1.0, then 1.0s.
Rows ==
    { [k \in 1..len |-> IF k = 1 THEN v ELSE 1] :
        len \in 1..MaxRowLen, v \in {0, 1} }

DimOf(sig) == Len(sig.level1)

\* Signature::zero(d)
zero_d(d) ==
    [level1 |-> [i \in 1..d |-> R(0)],
     level2 |-> [i \in 1..d |-> [j \in 1..d |-> R(0)]],
     level3 |-> [i \in 1..d |-> [j \in 1..d |-> [k \in 1..d |-> R(0)]]]]

\* fromSegment(dt, dX): the signature of one linear increment over d = 1 + len(dX).
from_segment_d(dt, dX) ==
    LET vec == <<dt>> \o dX
        d == Len(vec)
    IN  [level1 |-> vec,
         level2 |-> [i \in 1..d |-> [j \in 1..d |->
                        FMul(FMul(vec[i], vec[j]), Half)]],
         level3 |-> [i \in 1..d |-> [j \in 1..d |-> [k \in 1..d |->
                        FDiv(FMul(FMul(vec[i], vec[j]), vec[k]), Six)]]]]

\* combine(a, b): Chen's identity, which requires a.d = b.d.
combine_d(a, b) ==
    IF DimOf(a) # DimOf(b)
    THEN [status |-> "DimensionMismatch", sig |-> NoSignature]
    ELSE LET d == DimOf(a)
         IN  [status |-> "ok",
              sig |->
                [level1 |-> [i \in 1..d |-> FAdd(a.level1[i], b.level1[i])],
                 level2 |-> [i \in 1..d |-> [j \in 1..d |->
                    FAdd(FAdd(a.level2[i][j], b.level2[i][j]),
                         FMul(a.level1[i], b.level1[j]))]],
                 level3 |-> [i \in 1..d |-> [j \in 1..d |-> [k \in 1..d |->
                    FAdd(FAdd(FAdd(a.level3[i][j][k], b.level3[i][j][k]),
                              FMul(a.level1[i], b.level2[j][k])),
                         FMul(a.level2[i][j], b.level1[k]))]]]]]

\* The k-th increment (dt, dX): zip stops at the shorter of the two rows.
Delta(raw, times, k) ==
    [dt |-> R(times[k + 1] - times[k]),
     dX |-> [c \in 1..Min(Len(raw[k + 1]), Len(raw[k])) |->
               R(raw[k + 1][c] - raw[k][c])]]

\* The dimension of the row itself, without the time channel.
InitialDimOfRow(raw) == Len(raw[1])

\* Signature::zero(dim + 1) with dim = raw[0].len()
InitialDim(raw) == Len(raw[1]) + 1

AccInit ==
    /\ \E n \in MinSegmentLen..MaxRows : acc_raw \in [1..n -> Rows]
    /\ acc_k = 0
    /\ acc_sig = NoSignature
    /\ acc_pc = "start"

\* let mut current_signature = Signature::zero(dim + 1)
AccStart ==
    /\ acc_pc = "start"
    /\ acc_sig' = zero_d(InitialDim(acc_raw))
    /\ acc_pc' = "fold"
    /\ UNCHANGED <<acc_raw, acc_k>>
    /\ UNCHANGED notAcc

\* One iteration of the loop over deltas; a failing combine ends the call.
AccFold ==
    /\ acc_pc = "fold"
    /\ acc_k < Len(acc_raw) - 1
    /\ LET delta == Delta(acc_raw, UnitTimes(Len(acc_raw)), acc_k + 1)
           segment_signature == from_segment_d(delta.dt, delta.dX)
           r == combine_d(acc_sig, segment_signature)
       IN  IF r.status = "ok"
           THEN acc_sig' = r.sig /\ acc_pc' = "fold"
           ELSE acc_sig' = acc_sig /\ acc_pc' = "DimensionMismatch"
    /\ acc_k' = acc_k + 1
    /\ UNCHANGED acc_raw
    /\ UNCHANGED notAcc

\* The UniversalVector is built from the accumulated signature.
AccFinish ==
    /\ acc_pc = "fold"
    /\ acc_k = Len(acc_raw) - 1
    /\ acc_pc' = "done"
    /\ UNCHANGED <<acc_raw, acc_k, acc_sig>>
    /\ UNCHANGED notAcc

AccNext == AccStart \/ AccFold \/ AccFinish

\* level1 of length d, level2 d x d, level3 d x d x d.
Shaped(sig, d) ==
    /\ Len(sig.level1) = d
    /\ Len(sig.level2) = d
    /\ Len(sig.level3) = d
    /\ \A i \in 1..d :
          /\ Len(sig.level2[i]) = d
          /\ Len(sig.level3[i]) = d
          /\ \A j \in 1..d : Len(sig.level3[i][j]) = d

\* Every increment has as many coordinates as the first row.
Aligned(raw) ==
    \A k \in 1..(Len(raw) - 1) : Min(Len(raw[k + 1]), Len(raw[k])) = Len(raw[1])

SliceStamps == 0..2

SliceValues == -1..1

\* The increments from the second sample on.
SliceDeltasFromSecond(samples) ==
    [k \in 1..(Len(samples) - 2) |->
        << samples[k + 2][1] - samples[k + 1][1],
           samples[k + 2][2] - samples[k + 1][2] >>]

\* raw.windows(2).zip(t.windows(2)).map(..): the pairs (dt, dx) in stream order.
SliceDeltas(samples) ==
    [k \in 1..(Len(samples) - 1) |->
        << samples[k + 1][1] - samples[k][1], samples[k + 1][2] - samples[k][2] >>]

SliceInit ==
    /\ \E n \in 1..MaxRows : acc_raw \in [1..n -> SliceStamps \X SliceValues]
    /\ acc_k = 0
    /\ acc_sig = NoSignature
    /\ acc_pc = "start"

\* let mut current_signature = Signature::zero()
SliceStart ==
    /\ acc_pc = "start"
    /\ acc_sig' = SignatureZero
    /\ acc_pc' = "fold"
    /\ UNCHANGED <<acc_raw, acc_k>>
    /\ UNCHANGED notAcc

\* One iteration of for (dt, dx) in deltas.
SliceFold ==
    /\ acc_pc = "fold"
    /\ acc_k < Len(SliceDeltas(acc_raw))
    /\ LET segment_signature == SegmentOf(SliceDeltas(acc_raw)[acc_k + 1])
       IN  acc_sig' = combine(acc_sig, segment_signature)
    /\ acc_k' = acc_k + 1
    /\ UNCHANGED <<acc_raw, acc_pc>>
    /\ UNCHANGED notAcc

\* Gradient::update(deltas) and the UniversalVector returned.
SliceFinish ==
    /\ acc_pc = "fold"
    /\ acc_k = Len(SliceDeltas(acc_raw))
    /\ acc_sig' = [signature |-> acc_sig, gradient |-> SliceDeltas(acc_raw),
                   metadata |-> [timestamp |-> R(0), modality |-> "Vision",
                                 reliability |-> R(1)]]
    /\ acc_pc' = "done"
    /\ UNCHANGED <<acc_raw, acc_k>>
    /\ UNCHANGED notAcc

SliceNext == SliceStart \/ SliceFold \/ SliceFinish

\* The increment from the first sample to the last.
TotalIncrement(samples) ==
    << R(samples[Len(samples)][1] - samples[1][1]),
       R(samples[Len(samples)][2] - samples[1][2]) >>

\* C28: the fold starts from the zero signature and combines the increments'
\* signatures left to right; the zero signature is neutral on both sides of
\* combine; level1 of the accumulated signature is the total increment
\* (t_last - t_first, x_last - x_first) whatever the samples in between; and the
\* gradient holds the len(segment) - 1 increment pairs in stream order.
C28_FoldFromNeutralZero ==
    /\ [](acc_pc = "fold" =>
            /\ combine(SignatureZero, acc_sig) = acc_sig
            /\ combine(acc_sig, SignatureZero) = acc_sig
            /\ acc_k = 0 => acc_sig = SignatureZero
            /\ acc_sig.level1 = TotalIncrement(SubSeq(acc_raw, 1, acc_k + 1)))
    /\ [][(acc_pc = "fold" /\ acc_k' = acc_k + 1) =>
            LET b == from_segment(R(acc_raw[acc_k + 2][1] - acc_raw[acc_k + 1][1]),
                                  R(acc_raw[acc_k + 2][2] - acc_raw[acc_k + 1][2]))
            IN  /\ acc_sig' = combine(acc_sig, b)
                /\ combine(SignatureZero, b) = b
                /\ combine(b, SignatureZero) = b]_accVars
    /\ [](acc_pc = "done" =>
            /\ acc_sig.signature.level1 = TotalIncrement(acc_raw)
            /\ Len(acc_sig.gradient) = Len(acc_raw) - 1
            /\ \A k \in 1..(Len(acc_raw) - 1) :
                  acc_sig.gradient[k] = << acc_raw[k + 1][1] - acc_raw[k][1],
                                           acc_raw[k + 1][2] - acc_raw[k][2] >>)

\* Three samples that go up and come back: the vector returned has a zero
\* increment in x, a nonzero area and two gradient pairs.
C28_Witness ==
    /\ acc_pc = "done"
    /\ Len(acc_raw) = 3
    /\ acc_raw[2][2] # acc_raw[1][2]
    /\ acc_raw[3][2] = acc_raw[1][2]
    /\ acc_sig.signature.level1[2] = R(0)
    /\ acc_sig.signature.level2[1][2] # acc_sig.signature.level2[2][1]
    /\ Len(acc_sig.gradient) = 2

(***************************************************************************)
(* AdaptiveNormalizer (src/perception/adaptive_normalizer.rs): Welford's   *)
(* streaming mean and sum of squared deviations per dimension.             *)
(***************************************************************************)
\* Most updates explored (count is a u64 without a bound of its own).
MaxUpdates == 3

\* Longest sample explored.
MaxSampleLen == 2

NormValues == {1, 4}

NormSamples == UNION { [1..d -> NormValues] : d \in 0..MaxSampleLen }

Zeros(d) == [i \in 1..d |-> R(0)]

\* The normalizer as a record of its four fields.
Normalizer == [count |-> count, mean |-> mean, m2 |-> m2, initialized |-> initialized]

\* Lazy initialisation from the first sample's length.
LazyInit(n, values) ==
    IF ~n.initialized
    THEN [n EXCEPT !.mean = Zeros(Len(values)), !.m2 = Zeros(Len(values)),
                   !.initialized = TRUE]
    ELSE n

\* Welford's step on every dimension, with the new count.
Welford(n, values, c) ==
    LET delta(i) == FSub(R(values[i]), n.mean[i])
        new_mean(i) == FAdd(n.mean[i], FDiv(delta(i), R(c)))
        delta2(i) == FSub(R(values[i]), new_mean(i))
    IN  [n EXCEPT !.count = c,
                  !.mean = [i \in 1..Len(values) |-> new_mean(i)],
                  !.m2 = [i \in 1..Len(values) |->
                             FAdd(n.m2[i], FMul(delta(i), delta2(i)))]]

\* An update that counts the sample before it checks the dimension.
update_counting_first(n, values) ==
    LET sized == [LazyInit(n, values) EXCEPT !.count = n.count + 1]
    IN  IF Len(values) # Len(sized.mean)
        THEN [state |-> sized, failed |-> TRUE]
        ELSE [state |-> Welford(sized, values, sized.count), failed |-> FALSE]

\* AdaptiveNormalizer::update: the state after the call, and whether
\* assert_eq!(values.len(), self.mean.len()) failed.
update(n, values) ==
    LET sized == LazyInit(n, values)
    IN  IF Len(values) # Len(sized.mean)
        THEN [state |-> sized, failed |-> TRUE]
        ELSE [state |-> Welford(sized, values, sized.count + 1), failed |-> FALSE]

\* 1e-9, the smallest standard deviation divided by, as its inverse.
StdEpsilonInverse == 1000000000

\* A real s * sqrt(q), kept as its sign s and its square q: f64::sqrt without
\* rounding.
Root(s, q) == [sgn |-> s, sq |-> q]

\* The rational x as such a real.
Exact(x) == Root(Sign(x.n), FMul(x, x))

\* x / sqrt(v) for a variance v.
DivBySqrt(x, v) == Root(Sign(x.n), FDiv(FMul(x, x), v))

\* variance.sqrt() > 1e-9, decided on the variance n/d: n * 10^18 > d.
StdAboveEpsilon(variance) ==
    variance.n > ((variance.d \div StdEpsilonInverse) \div StdEpsilonInverse)

Variance(n, i) == FDiv(n.m2[i], R(n.count - 1))

\* A normalize that also learns from the sample it is given.
normalize_learning(n, values) ==
    [state |-> update(n, values).state,
     out |-> [i \in 1..Len(values) |-> Exact(R(values[i]))],
     failed |-> FALSE]

\* AdaptiveNormalizer::normalize(&self): the z-scores, the normalizer after the
\* call, and whether an index into m2 or mean was out of bounds.
normalize(n, values) ==
    IF n.count < 2
    THEN [state |-> n,
          out |-> [i \in 1..Len(values) |-> Exact(R(values[i]))],
          failed |-> FALSE]
    ELSE IF Len(values) > Len(n.m2)
         THEN [state |-> n, out |-> <<>>, failed |-> TRUE]
         ELSE [state |-> n,
               out |-> [i \in 1..Len(values) |->
                          IF StdAboveEpsilon(Variance(n, i))
                          THEN DivBySqrt(FSub(R(values[i]), n.mean[i]),
                                         Variance(n, i))
                          ELSE Exact(R(0))],
               failed |-> FALSE]

NormInit ==
    /\ count = 0
    /\ mean = <<>>
    /\ m2 = <<>>
    /\ initialized = FALSE
    /\ norm_result = [op |-> "new", values |-> <<>>, out |-> <<>>]

Update(values) ==
    /\ count < MaxUpdates
    /\ LET r == update(Normalizer, values)
       IN  /\ count' = r.state.count
           /\ mean' = r.state.mean
           /\ m2' = r.state.m2
           /\ initialized' = r.state.initialized
           /\ norm_result' = [op |-> IF r.failed THEN "DimensionMismatch" ELSE "update",
                              values |-> values, out |-> <<>>]
    /\ UNCHANGED notNorm

Normalize(values) ==
    /\ LET r == normalize(Normalizer, values)
       IN  /\ count' = r.state.count
           /\ mean' = r.state.mean
           /\ m2' = r.state.m2
           /\ initialized' = r.state.initialized
           /\ norm_result' = [op |-> IF r.failed THEN "IndexOutOfBounds" ELSE "normalize",
                              values |-> values, out |-> r.out]
    /\ UNCHANGED notNorm

NormNext ==
    \/ \E values \in NormSamples : Update(values)
    \/ \E values \in NormSamples : Normalize(values)

\* C10: the dimension is fixed by the first update and never changes; an
\* update whose sample length differs from it fails with DimensionMismatch, and
\* exactly such an update does, leaving count, mean and m2 as they were.
C10_DimensionFixedAndMismatchHarmless ==
    [][/\ initialized =>
             (initialized' /\ Len(mean') = Len(mean) /\ Len(m2') = Len(m2))
       /\ norm_result'.op \in {"update", "DimensionMismatch"} =>
             ((norm_result'.op = "DimensionMismatch")
                <=> (initialized /\ Len(norm_result'.values) # Len(mean)))
       /\ norm_result'.op = "DimensionMismatch" =>
             (count' = count /\ mean' = mean /\ m2' = m2)
       /\ norm_result'.op = "update" =>
             (count' = count + 1 /\ Len(mean') = Len(norm_result'.values))]_normVars

\* A malformed sample offered to a normalizer that has learnt from two samples.
C10_Witness ==
    /\ norm_result.op = "DimensionMismatch"
    /\ count = 2
    /\ Len(mean) = 2
    /\ mean[1] # mean[2]
    /\ m2[1] # R(0)

NormalizeCalled == norm_result.op \in {"normalize", "IndexOutOfBounds"}

\* C11: a normalize call leaves count, mean, m2 and initialized as they were;
\* count changes only in a successful update, and by exactly 1, so it counts
\* the successful updates since new().
C11_NormalizeIsPure ==
    [][/\ norm_result'.op \in {"normalize", "IndexOutOfBounds"} =>
             (count' = count /\ mean' = mean /\ m2' = m2
                /\ initialized' = initialized)
       /\ norm_result'.op = "update" => count' = count + 1
       /\ norm_result'.op # "update" => count' = count]_normVars

\* A normalize call on a normalizer that has learnt from two different samples.
C11_Witness ==
    /\ norm_result.op = "normalize"
    /\ count = 2
    /\ Len(mean) = 1
    /\ m2[1] # R(0)
    /\ norm_result.values = <<4>>

\* C12: normalize is defined for every sample and returns a vector of the
\* length of its input: the input itself while count < 2, and afterwards
\* (x[i] - mean[i]) / std where std > 1e-9 and 0.0 elsewhere.
C12_NormalizeTotal ==
    NormalizeCalled =>
       /\ norm_result.op = "normalize"
       /\ Len(norm_result.out) = Len(norm_result.values)
       /\ \A i \in 1..Len(norm_result.values) :
             norm_result.out[i] =
                IF count < 2 THEN Exact(R(norm_result.values[i]))
                ELSE IF StdAboveEpsilon(Variance(Normalizer, i))
                     THEN DivBySqrt(FSub(R(norm_result.values[i]), mean[i]),
                                    Variance(Normalizer, i))
                     ELSE Exact(R(0))

(***************************************************************************)
(* UniversalVector (ArchT3/src/perception/universal_vector.rs): normalize.  *)
(* A signature is held here with every entry as a Root and a common binary  *)
(* exponent: the entry's value is sgn * sqrt(sq) * 2^(-exp).                *)
(***************************************************************************)
\* f64::EPSILON = 2^-52
EpsilonExp == 52

\* The factors a signature is scaled by before it is normalised: 1.0 and 2^-53.
ScaleExps == {0, 53}

RECURSIVE Pow2(_)
Pow2(k) == IF k = 0 THEN 1 ELSE 2 * Pow2(k - 1)

RECURSIVE Halve(_, _)
Halve(x, k) ==
    IF k = 0 THEN x
    ELSE IF k >= 16 THEN Halve(x \div 65536, k - 16)
         ELSE Halve(x \div 2, k - 1)

\* Signature::scale(2^-exp) of a freshly combined signature.
scale(sig, exp) ==
    [level1 |-> [i \in 1..Dim |-> Exact(sig.level1[i])],
     level2 |-> [i \in 1..Dim |-> [j \in 1..Dim |-> Exact(sig.level2[i][j])]],
     level3 |-> [i \in 1..Dim |-> [j \in 1..Dim |-> [k \in 1..Dim |->
                    Exact(sig.level3[i][j][k])]]],
     exp |-> exp]

RECURSIVE SumSeq(_, _)
SumSeq(q, m) == IF m = 0 THEN R(0) ELSE FAdd(SumSeq(q, m - 1), q[m])

\* The entries of the three levels, flattened.
Flat(sig) ==
    [i \in 1..Dim |-> sig.level1[i]]
      \o [p \in 1..(Dim * Dim) |->
             sig.level2[((p - 1) \div Dim) + 1][((p - 1) % Dim) + 1]]
      \o [p \in 1..(Dim * Dim * Dim) |->
             sig.level3[((p - 1) \div (Dim * Dim)) + 1]
                       [(((p - 1) \div Dim) % Dim) + 1][((p - 1) % Dim) + 1]]

\* self.dot(self), in units of 2^(-2 exp): the sum of the squares of the entries.
DotSelf(sig) ==
    LET entries == Flat(sig)
    IN  SumSeq([p \in 1..Len(entries) |-> entries[p].sq], Len(entries))

\* mag > f64::EPSILON for mag = sqrt(m) * 2^(-exp), decided on m = n/d.
MagAboveEpsilon(m, exp) ==
    IF exp >= EpsilonExp
    THEN FGt(m, R(Pow2(2 * (exp - EpsilonExp))))
    ELSE m.n > Halve(m.d, 2 * (EpsilonExp - exp))

\* Every entry times inv_mag = 1 / (sqrt(m) * 2^(-exp)).
ScaledByInverse(sig, m) ==
    [level1 |-> [i \in 1..Dim |-> Root(sig.level1[i].sgn, FDiv(sig.level1[i].sq, m))],
     level2 |-> [i \in 1..Dim |-> [j \in 1..Dim |->
                    Root(sig.level2[i][j].sgn, FDiv(sig.level2[i][j].sq, m))]],
     level3 |-> [i \in 1..Dim |-> [j \in 1..Dim |-> [k \in 1..Dim |->
                    Root(sig.level3[i][j][k].sgn, FDiv(sig.level3[i][j][k].sq, m))]]],
     exp |-> 0]

\* A normalisation that rescales level1 and forgets levels 2 and 3.
signature_normalize_level1(sig) ==
    LET m == DotSelf(sig)
    IN  IF MagAboveEpsilon(m, sig.exp)
        THEN [sig EXCEPT !.level1 = ScaledByInverse(sig, m).level1, !.exp = 0]
        ELSE sig

\* Signature::normalize
signature_normalize(sig) ==
    LET m == DotSelf(sig)
    IN  IF MagAboveEpsilon(m, sig.exp) THEN ScaledByInverse(sig, m) ELSE sig

\* Metadata::zero()
MetadataZero == [timestamp |-> R(0), modality |-> "Vision", reliability |-> R(1)]

UniversalVector(signature, gradient, metadata) ==
    [signature |-> signature, gradient |-> gradient, metadata |-> metadata]

\* UniversalVector::normalize
uv_normalize(v) == [v EXCEPT !.signature = signature_normalize(v.signature)]

\* The vector of a path of two increments, its signature scaled.
UvInit ==
    /\ \E x, y \in Increments : \E exp \in ScaleExps :
          uv = UniversalVector(scale(combine(SegmentOf(x), SegmentOf(y)), exp),
                               <<x, y>>, MetadataZero)
    /\ uv_other = <<>>
    /\ uv_result = [op |-> "new"]

UvNormalize ==
    /\ uv' = uv_normalize(uv)
    /\ uv_result' = [op |-> "normalize"]
    /\ UNCHANGED uv_other
    /\ UNCHANGED notUv

UvNext == UvNormalize

IsZeroSignature(sig) == DotSelf(sig) = R(0)

\* magnitude = 1.0
HasUnitMagnitude(sig) == sig.exp = 0 /\ DotSelf(sig) = R(1)

Sigmas == { R(1), Half, R(0) }

\* Signature::dot
dot(a, b) ==
    LET x == Flat(a)
        y == Flat(b)
    IN  SumSeq([p \in 1..Len(x) |-> FMul(x[p], y[p])], Len(x))

\* The square of Signature::distance.
distance_sq(a, b) ==
    LET x == Flat(a)
        y == Flat(b)
    IN  SumSeq([p \in 1..Len(x) |-> FMul(FSub(x[p], y[p]), FSub(x[p], y[p]))],
               Len(x))

\* f64::exp of an argument that is never positive here, up to rounding: where
\* the result lies.
Exp(y) ==
    IF IsNaN(y) THEN "NaN"
    ELSE IF y.d = 0 THEN (IF y.n < 0 THEN "zero" ELSE "infinite")
    ELSE IF y.n = 0 THEN "one"
    ELSE IF y.n < 0 THEN "between zero and one"
    ELSE "above one"

\* UniversalVector::resonance_directional: dot / (mag_self * mag_other), as the
\* Root with the sign of dot and the square dot^2 / (|self|^2 |other|^2).
resonance_directional(self, other) ==
    LET d == dot(self.signature, other.signature)
        mag_self_sq == dot(self.signature, self.signature)
        mag_other_sq == dot(other.signature, other.signature)
    IN  IF mag_self_sq = R(0) \/ mag_other_sq = R(0)
        THEN Exact(R(0))
        ELSE Root(Sign(d.n), FDiv(FMul(d, d), FMul(mag_self_sq, mag_other_sq)))

\* UniversalVector::resonance_structural: exp(-(dist * dist) / (2 sigma sigma))
resonance_structural(self, other, sigma) ==
    Exp(FDiv(FNeg(distance_sq(self.signature, other.signature)),
             FMul(FMul(R(2), sigma), sigma)))

\* Two vectors: a path of two increments, and an increment with or without a
\* turn behind it.
ResInit ==
    /\ \E x, y \in Increments :
          uv = UniversalVector(combine(SegmentOf(x), SegmentOf(y)), <<x, y>>,
                               MetadataZero)
    /\ \E z \in Increments : \E w \in Tails :
          uv_other = UniversalVector(combine(SegmentOf(z), SegmentOf(w)), <<z, w>>,
                                     MetadataZero)
    /\ uv_result = [op |-> "new", sigma |-> R(0), value |-> <<>>]

ResonanceDirectional ==
    /\ uv_result' = [op |-> "resonance_directional", sigma |-> R(0),
                     value |-> resonance_directional(uv, uv_other)]
    /\ UNCHANGED <<uv, uv_other>>
    /\ UNCHANGED notUv

ResonanceStructural(sigma) ==
    /\ uv_result' = [op |-> "resonance_structural", sigma |-> sigma,
                     value |-> resonance_structural(uv, uv_other, sigma)]
    /\ UNCHANGED <<uv, uv_other>>
    /\ UNCHANGED notUv

\* dir.max(0.0): f64::max returns the other operand for a NaN.
DirClamped(dir) ==
    IF IsNaN(dir.sq) \/ dir.sgn <= 0 THEN Exact(R(0)) ELSE dir

\* Where dir_clamped * struc lies, for dir_clamped >= 0 and struc as Exp leaves it.
ClampedTimes(dir_clamped, struc) ==
    IF struc = "NaN" THEN "NaN"
    ELSE IF dir_clamped.sgn = 0
         THEN (IF struc = "infinite" THEN "NaN" ELSE "zero")
    ELSE IF struc \in {"zero", "infinite"} THEN struc
    ELSE IF dir_clamped.sq = R(1) THEN struc
    ELSE IF FLt(dir_clamped.sq, R(1)) /\ struc \in {"one", "between zero and one"}
         THEN "between zero and one"
    ELSE IF FGt(dir_clamped.sq, R(1)) /\ struc \in {"one", "above one"}
         THEN "above one"
    ELSE "positive"

\* UniversalVector::resonance_full; sqrt keeps each of these ranges.
resonance_full(self, other, sensitivity) ==
    LET dir == resonance_directional(self, other)
        struc == resonance_structural(self, other, sensitivity)
    IN  ClampedTimes(DirClamped(dir), struc)

ResonanceFull(sensitivity) ==
    /\ uv_result' = [op |-> "resonance_full", sigma |-> sensitivity,
                     value |-> resonance_full(uv, uv_other, sensitivity)]
    /\ UNCHANGED <<uv, uv_other>>
    /\ UNCHANGED notUv

ResNext ==
    \/ ResonanceDirectional
    \/ \E sigma \in Sigmas : ResonanceStructural(sigma)
    \/ \E sensitivity \in Sigmas : ResonanceFull(sensitivity)

\* C20: resonance_directional lies in [-1, 1] and is exactly 0.0 when either
\* operand has zero magnitude; resonance_structural lies in (0, 1].
C20_ResonanceBounds ==
    /\ uv_result.op = "resonance_directional" =>
          /\ FGe(R(1), uv_result.value.sq)
          /\ (dot(uv.signature, uv.signature) = R(0)
                \/ dot(uv_other.signature, uv_other.signature) = R(0))
               => uv_result.value = Exact(R(0))
    /\ uv_result.op = "resonance_structural" =>
          uv_result.value \in {"one", "between zero and one"}

\* C21: resonance_full is a real number in [0, 1] for every pair of signatures
\* and every sigma, and exactly 0 whenever the directional resonance is <= 0.
C21_ResonanceFullBounds ==
    uv_result.op = "resonance_full" =>
        /\ uv_result.value \in {"zero", "between zero and one", "one"}
        /\ resonance_directional(uv, uv_other).sgn <= 0 => uv_result.value = "zero"

(***************************************************************************)
(* UniversalVector::blend and Signature::blend, on signatures with rational *)
(* entries.                                                                 *)
(***************************************************************************)
\* Most blends applied to one vector.
MaxBlends == 2

\* alpha: below, at, inside, at and above the ends of [0, 1].
Alphas == { R(-1), R(0), [n |-> 1, d |-> 4], Half, R(1), R(2) }

\* alpha.clamp(0.0, 1.0); a NaN stays a NaN.
clamp01(alpha) ==
    IF IsNaN(alpha) THEN alpha
    ELSE IF FLt(alpha, R(0)) THEN R(0)
    ELSE IF FGt(alpha, R(1)) THEN R(1)
    ELSE alpha

\* s += (t - s) * a on every component of levels 1 to 3.
Mix(self, target, a) ==
    LET m(s, t) == FAdd(s, FMul(FSub(t, s), a))
    IN  [level1 |-> [i \in 1..Dim |-> m(self.level1[i], target.level1[i])],
         level2 |-> [i \in 1..Dim |-> [j \in 1..Dim |->
                        m(self.level2[i][j], target.level2[i][j])]],
         level3 |-> [i \in 1..Dim |-> [j \in 1..Dim |-> [k \in 1..Dim |->
                        m(self.level3[i][j][k], target.level3[i][j][k])]]]]

\* A blend that uses alpha as it comes.
signature_blend_unclamped(self, target, alpha) == Mix(self, target, alpha)

\* Signature::blend
signature_blend(self, target, alpha) == Mix(self, target, clamp01(alpha))

\* UniversalVector::blend
uv_blend(self, target, alpha) ==
    [self EXCEPT !.signature = signature_blend(self.signature, target.signature, alpha)]

\* A prototype, the vector of one increment with or without a turn behind it,
\* and a target, the vector of one increment.
BlendInit ==
    /\ \E x \in Increments : \E w \in Tails :
          uv = UniversalVector(combine(SegmentOf(x), SegmentOf(w)), <<x, w>>,
                               MetadataZero)
    /\ \E z \in Increments :
          uv_other = UniversalVector(SegmentOf(z), <<z>>, MetadataZero)
    /\ uv_result = [op |-> "new", alpha |-> R(0), blends |-> 0]

Blend(alpha) ==
    /\ uv_result.blends < MaxBlends
    /\ uv' = uv_blend(uv, uv_other, alpha)
    /\ uv_result' = [op |-> "blend", alpha |-> alpha, blends |-> uv_result.blends + 1]
    /\ UNCHANGED uv_other
    /\ UNCHANGED notUv

BlendNext == \E alpha \in Alphas : Blend(alpha)

\* y lies between x and z.
Between(x, y, z) == (FGe(y, x) /\ FGe(z, y)) \/ (FGe(x, y) /\ FGe(y, z))

MaxIngest == 4

\* Largest batch_size.
MaxBatch == 3

\* data.to_features(): one or two features.
ScanSamples == { <<1>>, <<4>>, <<1, 4>> }

\* No call of segment_and_process yet.
NotHanded == [raw |-> <<>>, times |-> <<>>, calls |-> 0]

\* UniversalScanner::new
ScanInit ==
    /\ raw_buffer = <<>>
    /\ time_buffer = <<>>
    /\ normalizer = [count |-> 0, mean |-> <<>>, m2 |-> <<>>, initialized |-> FALSE]
    /\ batch_size \in 0..MaxBatch
    /\ scan_clock = 0
    /\ scan_result = [op |-> "new", status |-> "ok", ready |-> FALSE]
    /\ handed = NotHanded

\* Ready as soon as anything is buffered.
is_ready_with_any == raw_buffer # <<>>

\* UniversalScanner::is_ready
is_ready == Len(raw_buffer) >= batch_size

\* An ingest that stores the raw sample before it learns from it.
IngestStoringFirst(raw_features) ==
    /\ scan_clock < MaxIngest
    /\ scan_clock' = scan_clock + 1
    /\ LET learnt == update(normalizer, raw_features)
           stored == Append(raw_buffer, normalize(normalizer, raw_features).out)
       IN  IF learnt.failed
           THEN /\ normalizer' = learnt.state
                /\ raw_buffer' = stored
                /\ scan_result' = [op |-> "ingest", status |-> "panic", ready |-> FALSE]
                /\ UNCHANGED time_buffer
           ELSE /\ normalizer' = learnt.state
                /\ raw_buffer' = stored
                /\ time_buffer' = Append(time_buffer, scan_clock)
                /\ scan_result' = [op |-> "ingest", status |-> "ok", ready |-> FALSE]
    /\ UNCHANGED <<batch_size, handed>>
    /\ UNCHANGED notScan

\* UniversalScanner::ingest of a sample stamped scan_clock.  The assertion of
\* update failing ends the call before anything is stored.
Ingest(raw_features) ==
    /\ scan_clock < MaxIngest
    /\ scan_clock' = scan_clock + 1
    /\ LET learnt == update(normalizer, raw_features)
           processed_features == normalize(learnt.state, raw_features)
       IN  IF learnt.failed \/ processed_features.failed
           THEN /\ normalizer' = learnt.state
                /\ scan_result' = [op |-> "ingest", status |-> "panic", ready |-> FALSE]
                /\ UNCHANGED <<raw_buffer, time_buffer>>
           ELSE /\ normalizer' = learnt.state
                /\ raw_buffer' = Append(raw_buffer, processed_features.out)
                /\ time_buffer' = Append(time_buffer, scan_clock)
                /\ scan_result' = [op |-> "ingest", status |-> "ok", ready |-> FALSE]
    /\ UNCHANGED <<batch_size, handed>>
    /\ UNCHANGED notScan

\* A flush that empties both buffers, keeping no point.
ProcessAndFlushAll ==
    /\ IF ~is_ready
       THEN /\ scan_result' = [op |-> "process_and_flush", status |-> "ok",
                               ready |-> FALSE]
            /\ UNCHANGED <<raw_buffer, time_buffer, handed>>
       ELSE /\ handed' = [raw |-> raw_buffer, times |-> time_buffer,
                          calls |-> 1 - handed.calls]
            /\ raw_buffer' = <<>>
            /\ time_buffer' = <<>>
            /\ scan_result' = [op |-> "process_and_flush", status |-> "ok",
                               ready |-> TRUE]
    /\ UNCHANGED <<normalizer, batch_size, scan_clock>>
    /\ UNCHANGED notScan

\* UniversalScanner::process_and_flush.  The vectors returned are those of
\* segment_and_process on the buffers handed over; `calls` tells one call from
\* the next.
ProcessAndFlush ==
    /\ IF ~is_ready
       THEN /\ scan_result' = [op |-> "process_and_flush", status |-> "ok",
                               ready |-> FALSE]
            /\ UNCHANGED <<raw_buffer, time_buffer, handed>>
       ELSE /\ handed' = [raw |-> raw_buffer, times |-> time_buffer,
                          calls |-> 1 - handed.calls]
            /\ IF raw_buffer # <<>> /\ time_buffer # <<>>
               THEN /\ raw_buffer' = << raw_buffer[Len(raw_buffer)] >>
                    /\ time_buffer' = << time_buffer[Len(time_buffer)] >>
               ELSE /\ raw_buffer' = <<>>
                    /\ time_buffer' = <<>>
            /\ scan_result' = [op |-> "process_and_flush", status |-> "ok",
                               ready |-> TRUE]
    /\ UNCHANGED <<normalizer, batch_size, scan_clock>>
    /\ UNCHANGED notScan

ScanNext ==
    \/ \E raw_features \in ScanSamples : Ingest(raw_features)
    \/ ProcessAndFlush

\* C24: raw_buffer and time_buffer always have the same length; an ingest that
\* returns appends exactly one entry to both (one that fails appends nothing);
\* and process_and_flush while is_ready is false returns the empty list without
\* calling the segmenter and leaves the buffers and the normalizer unchanged.
C24_BuffersInStep ==
    /\ [](Len(raw_buffer) = Len(time_buffer))
    /\ [][/\ (scan_result'.op = "ingest" /\ scan_result'.status = "ok") =>
                  (/\ Len(raw_buffer') = Len(raw_buffer) + 1
                   /\ Len(time_buffer') = Len(time_buffer) + 1
                   /\ SubSeq(raw_buffer', 1, Len(raw_buffer)) = raw_buffer
                   /\ SubSeq(time_buffer', 1, Len(time_buffer)) = time_buffer)
          /\ (scan_result'.op = "ingest" /\ scan_result'.status = "panic") =>
                  UNCHANGED <<raw_buffer, time_buffer>>
          /\ (scan_result'.op = "process_and_flush" /\ ~is_ready) =>
                  (/\ ~scan_result'.ready
                   /\ UNCHANGED <<raw_buffer, time_buffer, normalizer, handed>>)
          ]_scanVars

\* A flush found the scanner not ready with samples buffered, after an ingest
\* had failed and before any batch was handed over.
C24_Witness ==
    /\ scan_result.op = "process_and_flush"
    /\ ~scan_result.ready
    /\ Len(raw_buffer) >= 2
    /\ handed = NotHanded
    /\ scan_clock > Len(raw_buffer)

\* The last element of a non-empty sequence.
Last(q) == q[Len(q)]

\* The first sample buffered is the last one of the batch handed over before.
OverlapsLastBatch ==
    handed.raw # <<>> =>
        /\ raw_buffer # <<>>
        /\ raw_buffer[1] = Last(handed.raw)
        /\ time_buffer[1] = Last(handed.times)

\* C25 as stated: whenever is_ready holds, process_and_flush hands the whole
\* buffer to the segmenter and leaves both buffers holding exactly one entry,
\* the last normalized sample and its timestamp, which is then the first sample
\* of the next batch.
C25_FlushLeavesOneEntry ==
    /\ [][(scan_result'.op = "process_and_flush" /\ is_ready) =>
              (/\ handed'.raw = raw_buffer
               /\ handed'.times = time_buffer
               /\ Len(raw_buffer') = 1
               /\ Len(time_buffer') = 1
               /\ raw_buffer'[1] = Last(raw_buffer)
               /\ time_buffer'[1] = Last(time_buffer))
          ]_scanVars
    /\ []OverlapsLastBatch

\* C25 (amended): when is_ready holds and a sample is buffered, process_and_flush
\* hands the whole buffer to the segmenter and leaves both buffers holding
\* exactly one entry, the last normalized sample and its timestamp, which is
\* then the first sample of the next batch; when is_ready holds with nothing
\* buffered (batch_size = 0), it hands over the empty buffers and leaves them
\* empty.
C25_FlushKeepsLastPoint ==
    /\ [][(scan_result'.op = "process_and_flush" /\ is_ready) =>
              (/\ handed'.raw = raw_buffer
               /\ handed'.times = time_buffer
               /\ raw_buffer # <<>> =>
                     (/\ raw_buffer' = << Last(raw_buffer) >>
                      /\ time_buffer' = << Last(time_buffer) >>)
               /\ raw_buffer = <<>> =>
                     (/\ batch_size = 0
                      /\ raw_buffer' = <<>>
                      /\ time_buffer' = <<>>))
          ]_scanVars
    /\ []OverlapsLastBatch

\* A batch of two samples was handed over and a further sample ingested: the
\* buffer holds the batch's last sample and the new one.
C25_Witness ==
    /\ scan_result.op = "ingest"
    /\ scan_result.status = "ok"
    /\ Len(handed.raw) >= 2
    /\ Len(raw_buffer) = 2
    /\ raw_buffer[1] = Last(handed.raw)
    /\ time_buffer[1] = Last(handed.times)

\* C26 as stated: for every batch_size, immediately after process_and_flush has
\* run with is_ready true, is_ready is false and stays false until further
\* samples are ingested, so a flush that follows a flush does not call the
\* segmenter again and the same buffered data is never processed by two flushes.
C26_ReadyFlushConsumes ==
    [][/\ (scan_result'.op = "process_and_flush" /\ is_ready) => ~is_ready'
       /\ (~is_ready /\ scan_result'.op # "ingest") => ~is_ready'
       /\ (scan_result.op = "process_and_flush" /\ scan_result.ready
             /\ scan_result'.op = "process_and_flush") => UNCHANGED handed
      ]_scanVars

\* C26 (amended): for every batch_size >= 2, immediately after process_and_flush
\* has run with is_ready true, is_ready is false and stays false until further
\* samples are ingested, so the same buffered data is never processed by two
\* flushes.
C26_ReadyFlushConsumesFromTwo ==
    [][batch_size >= 2 =>
         /\ (scan_result'.op = "process_and_flush" /\ is_ready) => ~is_ready'
         /\ (~is_ready /\ scan_result'.op # "ingest") => ~is_ready'
         /\ (scan_result.op = "process_and_flush" /\ scan_result.ready
               /\ scan_result'.op = "process_and_flush") => UNCHANGED handed
      ]_scanVars

\* A second flush, straight after a ready one, found the scanner not ready.
C26_Witness ==
    /\ batch_size >= 2
    /\ scan_result.op = "process_and_flush"
    /\ ~scan_result.ready
    /\ Len(handed.raw) >= 2
    /\ raw_buffer = << Last(handed.raw) >>
    /\ ~is_ready

(***************************************************************************)
(* The demo driver (ArchT3/src/main.rs): the reflex thread and the          *)
(* strategist thread share metrics and config, each behind a Mutex; main    *)
(* joins both and reads the metrics.  The clock is abstracted: a loop may   *)
(* break at any of its checks, the strategist may analyse at any of its.    *)
(***************************************************************************)
\* Most iterations of the reflex loop.
MaxIters == 3

\* Most analyses of the strategist.
MaxRounds == 2

Nobody == "nobody"

\* Arc::new(Mutex::new(..)) twice, then both threads spawned.
DemoInit ==
    /\ demo_pc = [reflex |-> "check", strategist |-> "check", main |-> "join_reflex"]
    /\ holder = [metrics |-> Nobody, config |-> Nobody]
    /\ actions_count = 0
    /\ cfg_version = 0
    /\ reflex_iters = 0
    /\ strat_rounds = 0
    /\ new_config = 0
    /\ writers = [metrics |-> {}, config |-> {}]

\* mutex.lock() by thread t, moving it to pc `to`: blocks while the mutex is held.
Lock(t, m, from, to) ==
    /\ demo_pc[t] = from
    /\ holder[m] = Nobody
    /\ holder' = [holder EXCEPT ![m] = t]
    /\ demo_pc' = [demo_pc EXCEPT ![t] = to]

\* The guard of thread t on mutex m goes out of scope.
Unlock(t, m, from, to) ==
    /\ demo_pc[t] = from
    /\ holder[m] = t
    /\ holder' = [holder EXCEPT ![m] = Nobody]
    /\ demo_pc' = [demo_pc EXCEPT ![t] = to]

\* if elapsed >= 30.0 { break; }
ReflexCheck ==
    /\ demo_pc.reflex = "check"
    /\ \/ demo_pc' = [demo_pc EXCEPT !.reflex = "done"]
       \/ /\ reflex_iters < MaxIters
          /\ demo_pc' = [demo_pc EXCEPT !.reflex = "lock_config"]
    /\ UNCHANGED <<holder, actions_count, cfg_version, reflex_iters, strat_rounds,
                   new_config, writers>>
    /\ UNCHANGED notDemo

\* let cfg = config_reflex.lock().unwrap();
ReflexLockConfig ==
    /\ Lock("reflex", "config", "lock_config", "read_config")
    /\ UNCHANGED <<actions_count, cfg_version, reflex_iters, strat_rounds,
                   new_config, writers>>
    /\ UNCHANGED notDemo

\* cfg.clone() and the end of the block.
ReflexReadConfig ==
    /\ Unlock("reflex", "config", "read_config", "lock_metrics")
    /\ UNCHANGED <<actions_count, cfg_version, reflex_iters, strat_rounds,
                   new_config, writers>>
    /\ UNCHANGED notDemo

\* let mut met = metrics_reflex.lock().unwrap();
ReflexLockMetrics ==
    /\ Lock("reflex", "metrics", "lock_metrics", "update_metrics")
    /\ UNCHANGED <<actions_count, cfg_version, reflex_iters, strat_rounds,
                   new_config, writers>>
    /\ UNCHANGED notDemo

\* An update that counts only the iterations in which the reflex acted.
ReflexUpdateMetricsOnAction ==
    /\ Unlock("reflex", "metrics", "update_metrics", "sleep")
    /\ \E acted \in BOOLEAN :
          actions_count' = IF acted THEN actions_count + 1 ELSE actions_count
    /\ writers' = [writers EXCEPT !.metrics = @ \cup {"reflex"}]
    /\ UNCHANGED <<cfg_version, reflex_iters, strat_rounds, new_config>>
    /\ UNCHANGED notDemo

\* met.actions_count += 1; the average; the end of the block.
ReflexUpdateMetrics ==
    /\ Unlock("reflex", "metrics", "update_metrics", "sleep")
    /\ actions_count' = actions_count + 1
    /\ writers' = [writers EXCEPT !.metrics = @ \cup {"reflex"}]
    /\ UNCHANGED <<cfg_version, reflex_iters, strat_rounds, new_config>>
    /\ UNCHANGED notDemo

\* thread::sleep(cooldown_ms): the iteration is complete.
ReflexSleep ==
    /\ demo_pc.reflex = "sleep"
    /\ demo_pc' = [demo_pc EXCEPT !.reflex = "check"]
    /\ reflex_iters' = reflex_iters + 1
    /\ UNCHANGED <<holder, actions_count, cfg_version, strat_rounds, new_config,
                   writers>>
    /\ UNCHANGED notDemo

\* The strategist's loop head: break, analyse, or sleep until the next check.
StrategistCheck ==
    /\ demo_pc.strategist = "check"
    /\ \/ demo_pc' = [demo_pc EXCEPT !.strategist = "done"]
       \/ /\ strat_rounds < MaxRounds
          /\ demo_pc' = [demo_pc EXCEPT !.strategist = "lock_metrics"]
       \/ demo_pc' = [demo_pc EXCEPT !.strategist = "sleep"]
    /\ UNCHANGED <<holder, actions_count, cfg_version, reflex_iters, strat_rounds,
                   new_config, writers>>
    /\ UNCHANGED notDemo

\* let met = metrics_strategist.lock().unwrap();
StrategistLockMetrics ==
    /\ Lock("strategist", "metrics", "lock_metrics", "read_metrics")
    /\ UNCHANGED <<actions_count, cfg_version, reflex_iters, strat_rounds,
                   new_config, writers>>
    /\ UNCHANGED notDemo

\* met.clone() and the end of the block.
StrategistReadMetrics ==
    /\ Unlock("strategist", "metrics", "read_metrics", "lock_config")
    /\ UNCHANGED <<actions_count, cfg_version, reflex_iters, strat_rounds,
                   new_config, writers>>
    /\ UNCHANGED notDemo

\* let cfg = config_strategist.lock().unwrap();  (the read)
StrategistLockConfig ==
    /\ Lock("strategist", "config", "lock_config", "read_config")
    /\ UNCHANGED <<actions_count, cfg_version, reflex_iters, strat_rounds,
                   new_config, writers>>
    /\ UNCHANGED notDemo

\* let mut new_config = cfg.clone(), adjusted once the guard is dropped.
StrategistReadConfig ==
    /\ Unlock("strategist", "config", "read_config", "relock_config")
    /\ new_config' = cfg_version + 1
    /\ UNCHANGED <<actions_count, cfg_version, reflex_iters, strat_rounds, writers>>
    /\ UNCHANGED notDemo

\* let mut cfg = config_strategist.lock().unwrap();  (the write)
StrategistRelockConfig ==
    /\ Lock("strategist", "config", "relock_config", "write_config")
    /\ UNCHANGED <<actions_count, cfg_version, reflex_iters, strat_rounds,
                   new_config, writers>>
    /\ UNCHANGED notDemo

\* *cfg = new_config; and the end of the block.
StrategistWriteConfig ==
    /\ Unlock("strategist", "config", "write_config", "sleep")
    /\ cfg_version' = new_config
    /\ strat_rounds' = strat_rounds + 1
    /\ writers' = [writers EXCEPT !.config = @ \cup {"strategist"}]
    /\ UNCHANGED <<actions_count, reflex_iters, new_config>>
    /\ UNCHANGED notDemo

\* thread::sleep(100 ms)
StrategistSleep ==
    /\ demo_pc.strategist = "sleep"
    /\ demo_pc' = [demo_pc EXCEPT !.strategist = "check"]
    /\ UNCHANGED <<holder, actions_count, cfg_version, reflex_iters, strat_rounds,
                   new_config, writers>>
    /\ UNCHANGED notDemo

\* reflex_handle.join()
MainJoinReflex ==
    /\ demo_pc.main = "join_reflex"
    /\ demo_pc.reflex = "done"
    /\ demo_pc' = [demo_pc EXCEPT !.main = "join_strategist"]
    /\ UNCHANGED <<holder, actions_count, cfg_version, reflex_iters, strat_rounds,
                   new_config, writers>>
    /\ UNCHANGED notDemo

\* strategist_handle.join()
MainJoinStrategist ==
    /\ demo_pc.main = "join_strategist"
    /\ demo_pc.strategist = "done"
    /\ demo_pc' = [demo_pc EXCEPT !.main = "lock_metrics"]
    /\ UNCHANGED <<holder, actions_count, cfg_version, reflex_iters, strat_rounds,
                   new_config, writers>>
    /\ UNCHANGED notDemo

\* let final_metrics = metrics.lock().unwrap(); held to the end of main.
MainLockMetrics ==
    /\ Lock("main", "metrics", "lock_metrics", "report")
    /\ UNCHANGED <<actions_count, cfg_version, reflex_iters, strat_rounds,
                   new_config, writers>>
    /\ UNCHANGED notDemo

DemoNext ==
    \/ ReflexCheck
    \/ ReflexLockConfig
    \/ ReflexReadConfig
    \/ ReflexLockMetrics
    \/ ReflexUpdateMetrics
    \/ ReflexSleep
    \/ StrategistCheck
    \/ StrategistLockMetrics
    \/ StrategistReadMetrics
    \/ StrategistLockConfig
    \/ StrategistReadConfig
    \/ StrategistRelockConfig
    \/ StrategistWriteConfig
    \/ StrategistSleep
    \/ MainJoinReflex
    \/ MainJoinStrategist
    \/ MainLockMetrics

\* The mutexes thread t holds.
Held(t) == { m \in {"metrics", "config"} : holder[m] = t }

\* Thread t is about to call lock().
AtLock(t) == demo_pc[t] \in {"lock_config", "lock_metrics", "relock_config"}

\* C30: the reflex and the strategist each hold at most one of the two mutexes
\* at any time and hold none when they call lock(), so no reachable state is a
\* deadlock (some step is possible until main has the final metrics); config is
\* written only by the strategist and metrics only by the reflex thread, every
\* write of either builds on the one before (no update is lost), and once main
\* has joined both threads actions_count is the number of completed reflex
\* iterations.
C30_DemoThreadsSafe ==
    /\ \A t \in {"reflex", "strategist"} :
          /\ Cardinality(Held(t)) <= 1
          /\ AtLock(t) => Held(t) = {}
    /\ demo_pc.main # "report" => ENABLED DemoNext
    /\ writers.config \subseteq {"strategist"}
    /\ writers.metrics \subseteq {"reflex"}
    /\ cfg_version = strat_rounds
    /\ actions_count = reflex_iters + (IF demo_pc.reflex = "sleep" THEN 1 ELSE 0)
    /\ demo_pc.main \in {"lock_metrics", "report"} => actions_count = reflex_iters

\* Main reads the metrics after three reflex iterations and two reprogrammings.
C30_Witness ==
    /\ demo_pc.main = "report"
    /\ holder.metrics = "main"
    /\ actions_count = MaxIters
    /\ reflex_iters = MaxIters
    /\ cfg_version = MaxRounds
    /\ writers = [metrics |-> {"reflex"}, config |-> {"strategist"}]

(***************************************************************************)
(* Specifications: one per component, the other components standing idle.  *)
(***************************************************************************)
SwarmIdle ==
    /\ swarm = <<>>
    /\ config = TestConfig
    /\ swarm_op = [op |-> "new", unit |-> 0]

SigIdle ==
    /\ sig_in = <<>>
    /\ sig_tail = <<0, 0>>
    /\ sig_pc = "idle"
    /\ sig_ops = <<>>
    /\ sig_left = NoSignature
    /\ sig_right = NoSignature
    /\ sig_pair = NoSignature
    /\ sig_direct = NoSignature

SegIdle ==
    /\ seg_raw = <<>>
    /\ seg_times = <<>>
    /\ seg_pc = "idle"
    /\ seg_i = 0
    /\ seg_start_idx = 0
    /\ seg_current_sign = 0
    /\ seg_vectors = <<>>

NormIdle ==
    /\ count = 0
    /\ mean = <<>>
    /\ m2 = <<>>
    /\ initialized = FALSE
    /\ norm_result = [op |-> "idle", values |-> <<>>, out |-> <<>>]

LatIdle ==
    /\ lat_result = NoLateralInput
    /\ wired = {}

AccIdle ==
    /\ acc_raw = <<>>
    /\ acc_k = 0
    /\ acc_sig = NoSignature
    /\ acc_pc = "idle"

UvIdle ==
    /\ uv = <<>>
    /\ uv_other = <<>>
    /\ uv_result = [op |-> "idle"]

ScanIdle ==
    /\ raw_buffer = <<>>
    /\ time_buffer = <<>>
    /\ normalizer = <<>>
    /\ batch_size = 0
    /\ scan_clock = 0
    /\ scan_result = [op |-> "idle"]
    /\ handed = NotHanded

DemoIdle ==
    /\ demo_pc = <<>>
    /\ holder = <<>>
    /\ actions_count = 0
    /\ cfg_version = 0
    /\ reflex_iters = 0
    /\ strat_rounds = 0
    /\ new_config = 0
    /\ writers = <<>>

\* The swarm: construction, hand-built links, wire and enforce.
Init == SwarmInit /\ LatIdle /\ SigIdle /\ SegIdle /\ NormIdle
        /\ AccIdle /\ UvIdle /\ ScanIdle /\ DemoIdle

Spec == Init /\ [][SwarmNext]_vars

\* The signature algebra.
InitSig == SigInit /\ SwarmIdle /\ LatIdle /\ SegIdle /\ NormIdle
           /\ AccIdle /\ UvIdle /\ ScanIdle /\ DemoIdle

SpecSig == InitSig /\ [][SigNext]_vars

\* The segmenter.
InitSeg == SegInit /\ SwarmIdle /\ LatIdle /\ SigIdle /\ NormIdle
           /\ AccIdle /\ UvIdle /\ ScanIdle /\ DemoIdle

SpecSeg == InitSeg /\ [][SegNext]_vars

\* The normalizer.
InitNorm == NormInit /\ SwarmIdle /\ LatIdle /\ SigIdle /\ SegIdle
            /\ AccIdle /\ UvIdle /\ ScanIdle /\ DemoIdle

SpecNorm == InitNorm /\ [][NormNext]_vars

\* The lateral input of a wired or hand-linked swarm.
InitLat == LatInit /\ SigIdle /\ SegIdle /\ NormIdle
           /\ AccIdle /\ UvIdle /\ ScanIdle /\ DemoIdle

SpecLat == InitLat /\ [][LatNext]_vars

\* Wiring in any order.
InitOrder == OrderInit /\ SigIdle /\ SegIdle /\ NormIdle
             /\ AccIdle /\ UvIdle /\ ScanIdle /\ DemoIdle

SpecOrder == InitOrder /\ [][OrderNext]_vars

\* The accumulation of a segment's signature.
InitAcc == AccInit /\ SwarmIdle /\ LatIdle /\ SigIdle /\ SegIdle /\ NormIdle
           /\ UvIdle /\ ScanIdle /\ DemoIdle

SpecAcc == InitAcc /\ [][AccNext]_vars

\* The normalisation of a UniversalVector.
InitUv == UvInit /\ SwarmIdle /\ LatIdle /\ SigIdle /\ SegIdle /\ NormIdle
          /\ AccIdle /\ ScanIdle /\ DemoIdle

SpecUv == InitUv /\ [][UvNext]_vars

\* The resonance of two UniversalVectors.
InitRes == ResInit /\ SwarmIdle /\ LatIdle /\ SigIdle /\ SegIdle /\ NormIdle
           /\ AccIdle /\ ScanIdle /\ DemoIdle

SpecRes == InitRes /\ [][ResNext]_vars

\* The accumulation of a scalar segment's signature.
InitSlice == SliceInit /\ SwarmIdle /\ LatIdle /\ SigIdle /\ SegIdle /\ NormIdle
             /\ UvIdle /\ ScanIdle /\ DemoIdle

SpecSlice == InitSlice /\ [][SliceNext]_vars

\* The blending of a prototype towards a target.
InitBlend == BlendInit /\ SwarmIdle /\ LatIdle /\ SigIdle /\ SegIdle /\ NormIdle
             /\ AccIdle /\ ScanIdle /\ DemoIdle

SpecBlend == InitBlend /\ [][BlendNext]_vars

\* The scanner: ingest and process_and_flush in any order.
InitScan == ScanInit /\ SwarmIdle /\ LatIdle /\ SigIdle /\ SegIdle /\ NormIdle
            /\ AccIdle /\ UvIdle /\ DemoIdle

SpecScan == InitScan /\ [][ScanNext]_vars

\* The demo driver's threads.
InitDemo == DemoInit /\ SwarmIdle /\ LatIdle /\ SigIdle /\ SegIdle /\ NormIdle
            /\ AccIdle /\ UvIdle /\ ScanIdle

SpecDemo == InitDemo /\ [][DemoNext]_vars

=============================================================================
